---- MODULE Spec2Model ----
(***************************************************************************)
(* Response normalizer of the merge-request quality validator:            *)
(* MergeRequestAnalyzer._parse_analysis_response                           *)
(* (src/app/modules/analyzer.py).                                          *)
(*                                                                         *)
(* Text is modelled as a sequence of lexemes (tokens).  Every token is a   *)
(* fixed piece of text; two neighbouring tokens never merge into another   *)
(* lexeme (see WellFormed).  Python values are tagged records with the     *)
(* same four fields, floats are counted in tenths.                         *)
(***************************************************************************)
EXTENDS Integers, Sequences, FiniteSets

(***************************************************************************)
(* Bounds of the explored inputs.                                          *)
(***************************************************************************)
MaxItems == 2
MaxAlts == 2

(***************************************************************************)
(* Lexemes.                                                                *)
(***************************************************************************)
HUGE == "1e400int"      \* an integer literal of 401 digits, above the double range
FENCE_JSON == "<fence>json"   \* three backticks followed by json (7 characters)
FENCE == "<fence>"            \* three backticks (3 characters)
QUOTE == "\""
Whitespace == {"sp", "nl"}
NumLex == {"0", "7", "7.5", "8", "10", "12", "15", HUGE}
FloatLex == {"7.5"}
Bullets == {"-", "*"}
Enumerators == {"1.", "2.", "3."}

IsWs(t) == t \in Whitespace

\* value of a number lexeme, in tenths
Tenths(lex) ==
    CASE lex = "0" -> 0
      [] lex = "7" -> 70
      [] lex = "7.5" -> 75
      [] lex = "8" -> 80
      [] lex = "10" -> 100
      [] lex = "12" -> 120
      [] lex = "15" -> 150
      [] OTHER -> 0

(***************************************************************************)
(* Python values.                                                          *)
(***************************************************************************)
PyVal(t, txt, items, n) == [t |-> t, txt |-> txt, items |-> items, n |-> n]
None == PyVal("NoneType", <<>>, <<>>, 0)
PyStr(txt) == PyVal("str", txt, <<>>, 0)
PyInt(lex) == PyVal("int", IF lex = HUGE THEN <<HUGE>> ELSE <<>>, <<>>, Tenths(lex))
PyFloat(n) == PyVal("float", <<>>, <<>>, n)
PyInf == PyVal("float", <<"inf">>, <<>>, 0)
PyBool(lex) == PyVal("bool", <<>>, <<>>, IF lex = "true" THEN 10 ELSE 0)
PyList(items) == PyVal("list", <<>>, items, 0)
PyPair(key, val) == PyVal("pair", key, <<val>>, 0)
PyDict(pairs) == PyVal("dict", <<>>, pairs, 0)

(***************************************************************************)
(* str methods and slices used by the normalizer.                          *)
(***************************************************************************)
RECURSIVE lstrip(_)
lstrip(s) == IF s # <<>> /\ IsWs(Head(s)) THEN lstrip(Tail(s)) ELSE s

RECURSIVE rstrip(_)
rstrip(s) ==
    IF s # <<>> /\ IsWs(s[Len(s)]) THEN rstrip(SubSeq(s, 1, Len(s) - 1)) ELSE s

strip(s) == rstrip(lstrip(s))

\* the first characters of s are the lexeme tok
startswith(s, tok) == s # <<>> /\ Head(s) = tok

\* the last characters of s are the lexeme tok
endswith(s, tok) == s # <<>> /\ s[Len(s)] = tok

\* index of the first non-whitespace token at or after i (Len(s)+1 if none)
RECURSIVE SkipWs(_, _)
SkipWs(s, i) == IF i <= Len(s) /\ IsWs(s[i]) THEN SkipWs(s, i + 1) ELSE i

(***************************************************************************)
(* json.loads on a token sequence (recursive descent, as json.decoder).    *)
(***************************************************************************)
Parsed(val, next) == [ok |-> TRUE, val |-> val, next |-> next]
JSONDecodeError == [ok |-> FALSE, val |-> None, next |-> 0]

\* a string literal: opening quote, content without raw line breaks, closing quote
RECURSIVE ScanString(_, _)
ScanString(s, j) ==
    IF j > Len(s) THEN 0
    ELSE IF s[j] = QUOTE THEN j
    ELSE IF s[j] = "nl" THEN 0
    ELSE ScanString(s, j + 1)

ParseString(s, i) ==
    LET j == ScanString(s, i + 1)
    IN  IF j = 0 THEN JSONDecodeError
        ELSE Parsed(PyStr(SubSeq(s, i + 1, j - 1)), j + 1)

RECURSIVE ParseValue(_, _)
RECURSIVE ParseMembers(_, _, _)
RECURSIVE ParseElements(_, _, _)

\* after "{" or ",": a "key": value member, then "," or "}"
ParseMembers(s, i, pairs) ==
    LET k == SkipWs(s, i)
    IN  IF k > Len(s) \/ s[k] # QUOTE THEN JSONDecodeError
        ELSE LET key == ParseString(s, k)
                 c == SkipWs(s, key.next)
             IN  IF ~key.ok \/ c > Len(s) \/ s[c] # ":" THEN JSONDecodeError
                 ELSE LET v == ParseValue(s, SkipWs(s, c + 1))
                          e == SkipWs(s, v.next)
                          acc == Append(pairs, PyPair(key.val.txt, v.val))
                      IN  IF ~v.ok \/ e > Len(s) THEN JSONDecodeError
                          ELSE IF s[e] = "}" THEN Parsed(PyDict(acc), e + 1)
                          ELSE IF s[e] = "," THEN ParseMembers(s, e + 1, acc)
                          ELSE JSONDecodeError

\* after "[" or ",": a value, then "," or "]"
ParseElements(s, i, items) ==
    LET v == ParseValue(s, SkipWs(s, i))
        e == SkipWs(s, v.next)
        acc == Append(items, v.val)
    IN  IF ~v.ok \/ e > Len(s) THEN JSONDecodeError
        ELSE IF s[e] = "]" THEN Parsed(PyList(acc), e + 1)
        ELSE IF s[e] = "," THEN ParseElements(s, e + 1, acc)
        ELSE JSONDecodeError

ParseValue(s, i) ==
    IF i > Len(s) THEN JSONDecodeError
    ELSE IF s[i] = QUOTE THEN ParseString(s, i)
    ELSE IF s[i] = "{" THEN
        LET k == SkipWs(s, i + 1)
        IN  IF k <= Len(s) /\ s[k] = "}" THEN Parsed(PyDict(<<>>), k + 1)
            ELSE ParseMembers(s, i + 1, <<>>)
    ELSE IF s[i] = "[" THEN
        LET k == SkipWs(s, i + 1)
        IN  IF k <= Len(s) /\ s[k] = "]" THEN Parsed(PyList(<<>>), k + 1)
            ELSE ParseElements(s, i + 1, <<>>)
    ELSE IF s[i] = "null" THEN Parsed(None, i + 1)
    ELSE IF s[i] \in {"true", "false"} THEN Parsed(PyBool(s[i]), i + 1)
    ELSE IF s[i] \in FloatLex THEN Parsed(PyFloat(Tenths(s[i])), i + 1)
    ELSE IF s[i] \in NumLex THEN Parsed(PyInt(s[i]), i + 1)
    ELSE JSONDecodeError

\* json.loads: one value, surrounded by optional whitespace, nothing after it
json_loads(s) ==
    LET v == ParseValue(s, SkipWs(s, 1))
    IN  IF v.ok /\ SkipWs(s, v.next) > Len(s) THEN v ELSE JSONDecodeError

(***************************************************************************)
(* dict.get and float() as the normalizer uses them.                       *)
(***************************************************************************)
\* value of the last member named key (json keeps the last duplicate)
RECURSIVE dict_get(_, _, _)
dict_get(d, key, default) ==
    IF d.items = <<>> THEN default
    ELSE LET last == d.items[Len(d.items)]
         IN  IF last.txt = <<key>> THEN last.items[1]
             ELSE dict_get(PyDict(SubSeq(d.items, 1, Len(d.items) - 1)), key, default)

Converted(val) == [exc |-> "none", val |-> val]
Raises(exc) == [exc |-> exc, val |-> None]

\* float(x): the float, or the exception the conversion raises
float(x) ==
    CASE x.t = "float" -> Converted(x)
      [] x.t = "int" -> IF x.txt = <<HUGE>> THEN Raises("OverflowError")
                        ELSE Converted(PyFloat(x.n))
      [] x.t = "bool" -> Converted(PyFloat(x.n))
      [] x.t = "str" ->
            LET lex == strip(x.txt)
            IN  IF Len(lex) = 1 /\ lex[1] \in NumLex
                THEN IF lex[1] = HUGE THEN Converted(PyInf)
                     ELSE Converted(PyFloat(Tenths(lex[1])))
                ELSE Raises("ValueError")
      [] OTHER -> Raises("TypeError")

(***************************************************************************)
(* Tier 1: the whole text, fences cut off, parsed as JSON.                 *)
(***************************************************************************)
\* lines 327-332: strip, cut a leading json fence (7 characters), cut a
\* trailing fence (3 characters), strip again
cleaned_message(message) ==
    LET stripped == strip(message)
    IN  IF startswith(stripped, FENCE_JSON)
        THEN LET cut == Tail(stripped)
             IN  strip(IF endswith(cut, FENCE) THEN SubSeq(cut, 1, Len(cut) - 1)
                       ELSE cut)
        ELSE stripped

\* lines 333-341: parsed_json after the first try block (None when the text
\* is not brace-delimited or json.loads raised JSONDecodeError)
DirectJSON(message) ==
    LET cleaned == cleaned_message(message)
    IN  IF startswith(cleaned, "{") /\ endswith(cleaned, "}")
        THEN LET r == json_loads(cleaned) IN IF r.ok THEN r.val ELSE None
        ELSE None

(***************************************************************************)
(* Tier 2: the first fenced json block found anywhere in the text         *)
(* (re.search with re.DOTALL, lines 344-352).                              *)
(***************************************************************************)
\* the closing fence of the pattern also matches the first three characters
\* of an opening json fence
IsFence(t) == t \in {FENCE, FENCE_JSON}

\* first "}" at or after j that is followed by optional whitespace and a fence
RECURSIVE BlockEnd(_, _)
BlockEnd(s, j) ==
    IF j > Len(s) THEN 0
    ELSE IF s[j] = "}" /\ SkipWs(s, j + 1) <= Len(s) /\ IsFence(s[SkipWs(s, j + 1)])
         THEN j
    ELSE BlockEnd(s, j + 1)

NoMatch == [found |-> FALSE, group |-> <<>>]
Match(group) == [found |-> TRUE, group |-> group]

\* leftmost match starting at or after i; group(1) is the lazy brace block
RECURSIVE json_match(_, _)
json_match(s, i) ==
    IF i > Len(s) THEN NoMatch
    ELSE LET b == SkipWs(s, i + 1)
             e == IF b <= Len(s) /\ s[b] = "{" THEN BlockEnd(s, b + 1) ELSE 0
         IN  IF s[i] = FENCE_JSON /\ e # 0 THEN Match(SubSeq(s, b, e))
             ELSE json_match(s, i + 1)

\* lines 343-354: parsed_json after the second tier
EmbeddedJSON(message) ==
    LET m == json_match(message, 1)
    IN  IF m.found
        THEN LET r == json_loads(m.group) IN IF r.ok THEN r.val ELSE None
        ELSE None

(***************************************************************************)
(* Tier 3: numbered prose sections found by regular expressions            *)
(* (lines 377-397).                                                        *)
(***************************************************************************)
\* last line break among s[k..e-1], 0 if there is none
RECURSIVE LastNl(_, _, _)
LastNl(s, k, e) ==
    IF e <= k THEN 0
    ELSE IF s[e - 1] = "nl" THEN e - 1
    ELSE LastNl(s, k, e - 1)

\* the lazy group ends before the first line break that is followed by
\* optional whitespace and the next enumerator, or at the end of the text
RECURSIVE SectionEnd(_, _, _)
SectionEnd(s, q, nextnum) ==
    IF q > Len(s) THEN q
    ELSE IF s[q] = "nl" /\ SkipWs(s, q + 1) <= Len(s) /\ s[SkipWs(s, q + 1)] = nextnum
         THEN q
    ELSE SectionEnd(s, q + 1, nextnum)

\* re.search of  <num>\s*<phrase>:?\s*\n(.*?)(?=\n\s*<nextnum>|\Z)  with
\* re.DOTALL, leftmost match at or after i; group(1)
RECURSIVE section_match(_, _, _, _, _)
section_match(s, i, num, phrase, nextnum) ==
    IF i > Len(s) THEN NoMatch
    ELSE LET j == SkipWs(s, i + 1)
             k == IF j + 1 <= Len(s) /\ s[j + 1] = ":" THEN j + 2 ELSE j + 1
             p == IF j <= Len(s) /\ s[j] = phrase
                  THEN LastNl(s, k, SkipWs(s, k)) ELSE 0
         IN  IF s[i] = num /\ p # 0
             THEN Match(SubSeq(s, p + 1, SectionEnd(s, p + 1, nextnum) - 1))
             ELSE section_match(s, i + 1, num, phrase, nextnum)

\* end of the line that holds position c: its line break, or Len(s)+1
RECURSIVE LineEnd(_, _)
LineEnd(s, c) == IF c > Len(s) \/ s[c] = "nl" THEN c ELSE LineEnd(s, c + 1)

\* re.findall(r"^\s*<prefix>\s+(.*)", s, re.MULTILINE) from position st on:
\* the rest of the line after every prefix (a bullet or an enumerator) that
\* is the first thing on its line and is followed by whitespace
RECURSIVE findall(_, _, _)
findall(s, st, prefixes) ==
    IF st > Len(s) THEN <<>>
    ELSE LET b == SkipWs(s, st)
             c == SkipWs(s, b + 1)
             e == LineEnd(s, c)
         IN  IF /\ (st = 1 \/ s[st - 1] = "nl")
                /\ b < Len(s) /\ s[b] \in prefixes /\ IsWs(s[b + 1])
             THEN <<SubSeq(s, c, e - 1)>> \o findall(s, e, prefixes)
             ELSE findall(s, st + 1, prefixes)

\* [x.strip() for x in found if x.strip()]
RECURSIVE stripped_nonempty(_)
stripped_nonempty(found) ==
    IF found = <<>> THEN <<>>
    ELSE LET x == strip(Head(found))
         IN  (IF x # <<>> THEN <<PyStr(x)>> ELSE <<>>) \o stripped_nonempty(Tail(found))

\* lines 379-382 and 386-389: bullet items, or numbered items when the
\* section has no bullet item
section_items(group) ==
    LET text == strip(group)
        bulleted == findall(text, 1, Bullets)
    IN  stripped_nonempty(IF bulleted # <<>> THEN bulleted
                          ELSE findall(text, 1, Enumerators))

\* first number after position m that is followed by "/" or "out of" and 10
RECURSIVE ScoreNum(_, _)
ScoreNum(s, m) ==
    IF m > Len(s) THEN 0
    ELSE LET d == SkipWs(s, m + 1)
             t == SkipWs(s, d + 1)
         IN  IF /\ s[m] \in NumLex
                /\ d <= Len(s) /\ s[d] \in {"/", "out of"}
                /\ t <= Len(s) /\ s[t] \in {"10", HUGE}
             THEN m
             ELSE ScoreNum(s, m + 1)

\* re.search of line 391, leftmost match at or after i; group(1)
RECURSIVE score_match(_, _)
score_match(s, i) ==
    IF i > Len(s) THEN NoMatch
    ELSE LET j == SkipWs(s, i + 1)
             m == IF j <= Len(s) /\ s[j] = "Overall quality score"
                  THEN ScoreNum(s, j + 1) ELSE 0
         IN  IF s[i] = "3." /\ m # 0 THEN Match(<<s[m]>>)
             ELSE score_match(s, i + 1)

(***************************************************************************)
(* The analysis dictionary.                                                *)
(***************************************************************************)
ListKeys == <<"quality_issues", "good_practices", "patterns", "anti_patterns">>
EmptyList == PyList(<<>>)

\* faulty variant: the stored raw text is the cleaned text
NewAnalysis_cleaned(raw) ==
    [quality_issues |-> EmptyList, good_practices |-> EmptyList,
     patterns |-> EmptyList, anti_patterns |-> EmptyList,
     overall_score |-> None, raw_response |-> PyStr(cleaned_message(raw))]

\* lines 316-323
NewAnalysis(raw) ==
    [quality_issues |-> EmptyList, good_practices |-> EmptyList,
     patterns |-> EmptyList, anti_patterns |-> EmptyList,
     overall_score |-> None, raw_response |-> PyStr(raw)]

\* lines 282-287 and 309-314: the error dictionary
ErrorAnalysis(msg) ==
    [quality_issues |-> EmptyList, good_practices |-> EmptyList,
     patterns |-> EmptyList, anti_patterns |-> EmptyList,
     overall_score |-> None, raw_response |-> PyStr(msg), error |-> PyStr(msg)]

\* faulty variant: a field that is not a list is kept
AsList_keeps(v) == v

\* lines 369-372: a field that is not a list is reset to the empty list
AsList(v) == IF v.t = "list" THEN v ELSE EmptyList

\* lines 361-368: None stays None, ValueError and TypeError give None, any
\* other exception of float() leaves the function
ScoreOf(score_val) ==
    IF score_val = None THEN Converted(None)
    ELSE LET c == float(score_val)
         IN  IF c.exc \in {"ValueError", "TypeError"} THEN Converted(None) ELSE c

\* faulty variant: patterns and anti_patterns are read from each other's key
JSONFields_swapped(a, parsed) ==
    [a EXCEPT !.quality_issues = AsList(dict_get(parsed, "quality_issues", EmptyList)),
              !.good_practices = AsList(dict_get(parsed, "good_practices", EmptyList)),
              !.patterns = AsList(dict_get(parsed, "anti_patterns", EmptyList)),
              !.anti_patterns = AsList(dict_get(parsed, "patterns", EmptyList)),
              !.overall_score = ScoreOf(dict_get(parsed, "overall_score", None)).val]

\* lines 357-372: the analysis after the JSON branch
JSONFields(a, parsed) ==
    [a EXCEPT !.quality_issues = AsList(dict_get(parsed, "quality_issues", EmptyList)),
              !.good_practices = AsList(dict_get(parsed, "good_practices", EmptyList)),
              !.patterns = AsList(dict_get(parsed, "patterns", EmptyList)),
              !.anti_patterns = AsList(dict_get(parsed, "anti_patterns", EmptyList)),
              !.overall_score = ScoreOf(dict_get(parsed, "overall_score", None)).val]

\* faulty variant: text in which no section is found is reported as an error
RegexFields_flags_error(a, text) ==
    IF section_match(text, 1, "1.", "Code quality issues", "2.").found
        \/ section_match(text, 1, "2.", "Good practices", "3.").found
        \/ score_match(text, 1).found
    THEN a
    ELSE ErrorAnalysis(text)

\* lines 377-397: the analysis after the regex branch
RegexFields(a, text) ==
    LET quality_match == section_match(text, 1, "1.", "Code quality issues", "2.")
        practices_match == section_match(text, 1, "2.", "Good practices", "3.")
        score == score_match(text, 1)
    IN  [a EXCEPT !.quality_issues =
                      IF quality_match.found
                      THEN PyList(section_items(quality_match.group)) ELSE @,
                  !.good_practices =
                      IF practices_match.found
                      THEN PyList(section_items(practices_match.group)) ELSE @,
                  !.overall_score =
                      IF score.found THEN ScoreOf(PyStr(score.group)).val ELSE @]

(***************************************************************************)
(* The model reply.                                                        *)
(***************************************************************************)
\* response.get("result", {}).get("alternatives", [])   (line 290)
Alternatives(resp) ==
    LET res == IF "result" \in DOMAIN resp THEN resp.result ELSE <<>>
    IN  IF "alternatives" \in DOMAIN res THEN res.alternatives ELSE <<>>

\* lines 293-306: the text taken from the first alternative
AlternativeText(first_alt) ==
    IF first_alt.isdict
    THEN IF first_alt.message_text # <<>> THEN first_alt.message_text[1]
         ELSE IF first_alt.text # <<>> THEN first_alt.text[1]
         ELSE first_alt.str
    ELSE IF first_alt.text # <<>> THEN first_alt.text[1]
         ELSE first_alt.str

(***************************************************************************)
(* Model replies explored: texts built from JSON objects, fences, prose    *)
(* and numbered sections.                                                  *)
(***************************************************************************)
RECURSIVE Join(_, _)
Join(ss, sep) ==
    IF ss = <<>> THEN <<>>
    ELSE IF Len(ss) = 1 THEN ss[1]
    ELSE ss[1] \o sep \o Join(Tail(ss), sep)

Q(w) == <<QUOTE, w, QUOTE>>
JList(vals) == <<"[">> \o Join(vals, <<",", "sp">>) \o <<"]">>
JMember(key, val) == Q(key) \o <<":", "sp">> \o val
JObject(members) == <<"{", "nl">> \o Join(members, <<",", "nl">>) \o <<"nl", "}">>

Words == <<"X", "Y", "Z">>
\* lists of strings: the first n words in order, and two words reversed
StringLists ==
    {[i \in 1..n |-> Words[i]] : n \in 0..MaxItems} \cup {<<"Y", "X">>}

JStrings(ws) == JList([i \in 1..Len(ws) |-> Q(ws[i])])

ScoreTexts == {"0", "7", "7.5", "10", "15", HUGE}

\* an object that matches the schema: four lists of strings and a number
SchemaObject(qi, gp, pa, an, sc) ==
    JObject(<<JMember("quality_issues", JStrings(qi)), JMember("good_practices", JStrings(gp)),
              JMember("patterns", JStrings(pa)), JMember("anti_patterns", JStrings(an)),
              JMember("overall_score", <<sc>>)>>)

SchemaParams ==
    (StringLists \X StringLists \X StringLists \X StringLists \X {"7.5"})
        \cup ({<<"X">>} \X {<<>>} \X {<<>>} \X {<<>>} \X ScoreTexts)

SchemaObjects == {SchemaObject(p[1], p[2], p[3], p[4], p[5]) : p \in SchemaParams}

\* values of any JSON type
OddValues ==
    {<<sc>> : sc \in ScoreTexts} \cup
    {Q("abc"), Q("8"), <<QUOTE, "sp", "7.5", "sp", QUOTE>>, <<"null">>, <<"true">>,
     <<"{", "}">>, JList(<<Q("X"), Q("Y")>>), JList(<<<<"7">>, <<"null">>, Q("X")>>),
     JList(<<JList(<<Q("X")>>)>>), <<"[", "sp", "]">>}

AllKeys == {"quality_issues", "good_practices", "patterns", "anti_patterns",
            "overall_score", "other"}

\* objects that deviate from the schema: one member of any type, a
\* duplicated key, no member
OddObjects ==
    {<<"{">> \o JMember(k, v) \o <<"}">> : k \in AllKeys, v \in OddValues}
    \cup {<<"{">> \o JMember(k, JList(<<Q("X")>>)) \o <<",">> \o JMember(k, v) \o <<"}">> :
            k \in {"patterns", "overall_score"}, v \in {<<"15">>, JList(<<Q("Y")>>)}}
    \cup {<<"{", "}">>, <<"{", "sp", "}">>}

\* brace-delimited text that is not JSON
BrokenObjects ==
    {<<"{", "prose", "}">>,
     <<"{">> \o JMember("patterns", JList(<<Q("X")>>)) \o <<",", "}">>,
     <<"{">> \o JMember("patterns", <<"[">> \o Q("X") \o <<",", "]">>) \o <<"}">>,
     <<"{">> \o JMember("patterns", <<QUOTE, "X", "nl", "Y", QUOTE>>) \o <<"}">>,
     <<"{">> \o Q("patterns") \o <<"}">>,
     <<"{", "}", "sp", "{", "}">>,
     <<"{">> \o JMember("patterns", JList(<<Q("X")>>)),
     <<"{">> \o JMember("patterns", <<QUOTE, "}", "nl", FENCE, "X", QUOTE>>) \o <<"}">>}

GoodObject == <<"{">> \o JMember("patterns", JList(<<Q("Z")>>)) \o <<"}">>

\* a JSON-like body alone, padded, fenced, and embedded in prose
Wrappings(body) ==
    {body,
     <<"sp", "nl">> \o body \o <<"nl">>,
     <<FENCE_JSON, "nl">> \o body \o <<"nl", FENCE>>,
     <<"nl", FENCE_JSON>> \o body \o <<FENCE, "sp">>,
     <<FENCE_JSON, "nl">> \o body,
     <<FENCE, "nl">> \o body \o <<"nl", FENCE>>,
     body \o <<"nl", FENCE>>,
     <<"prose", "nl", FENCE_JSON, "nl">> \o body \o <<"nl", FENCE, "nl", "prose">>,
     <<FENCE_JSON, "sp">> \o body \o <<"sp", FENCE, "sp", "prose">>,
     <<"prose", "sp">> \o body,
     body \o <<"nl", FENCE_JSON, "nl">> \o GoodObject \o <<"nl", FENCE>>,
     <<FENCE_JSON, "{", "prose", FENCE, "nl", FENCE_JSON>> \o body \o <<FENCE>>,
     <<FENCE_JSON>> \o body \o <<FENCE_JSON>> \o GoodObject \o <<FENCE>>}

JSONTexts ==
    UNION {Wrappings(body) : body \in SchemaObjects \cup OddObjects \cup BrokenObjects}

\* numbered prose: "1. Code quality issues", "2. Good practices",
\* "3. Overall quality score"
Header(num, phrase, colon) == <<num, "sp", phrase>> \o colon \o <<"nl">>

EnumSeq == <<"1.", "2.", "3.">>
ItemStyles == {"dash", "star", "numbered"}

ItemLine(style, i, w) ==
    CASE style = "dash" -> <<"-", "sp", w>>
      [] style = "star" -> <<"sp", "*", "sp", w, "sp">>
      [] OTHER -> <<EnumSeq[i], "sp", w>>

ItemLines(style, n, ws) == Join([i \in 1..n |-> ItemLine(style, i, ws[i])], <<"nl">>)

ScoreForms ==
    {<<"7", "/", "10">>, <<"7.5", "sp", "out of", "sp", "10">>, <<"12", "/", "10">>,
     <<"prose", "sp", "8", "sp", "/", "sp", "10">>, <<HUGE, "/", "10">>, <<"7.5">>, <<"prose">>}

Section(num, phrase, colon, style, n, ws) ==
    Header(num, phrase, colon) \o ItemLines(style, n, ws)

SectionedText(s1, n1, s2, n2, sc, colon, gap) ==
    Join(<<Section("1.", "Code quality issues", colon, s1, n1, <<"a", "b", "c">>),
           Section("2.", "Good practices", colon, s2, n2, <<"d", "e", "f">>),
           <<"3.", "sp", "Overall quality score">> \o colon \o <<"sp">> \o sc>>, gap)

SectionedParams ==
    ItemStyles \X (0..MaxItems) \X ItemStyles \X (0..MaxItems) \X ScoreForms
        \X {<<>>, <<":">>} \X {<<"nl">>, <<"nl", "nl">>}

SectionedTexts ==
    {SectionedText(p[1], p[2], p[3], p[4], p[5], p[6], p[7]) : p \in SectionedParams}

ProseTexts ==
    {<<>>, <<"sp">>, <<"prose">>, <<"prose", "nl", "prose">>,
     <<"1.", "sp", "a", "nl", "-", "sp", "b", "nl", "7", "/", "10">>,
     Section("2.", "Good practices", <<":">>, "dash", 1, <<"d">>),
     <<"3.", "Overall quality score", "sp", "7", "/", "10">>,
     Section("1.", "Code quality issues", <<":">>, "dash", 1, <<"a">>)
        \o <<"nl", FENCE_JSON, "{", "prose", "}", FENCE>>,
     <<"prose", "nl">> \o Section("1.", "Code quality issues", <<>>, "dash", 1, <<"a">>)
        \o <<"sp", "prose", "nl", "-", "nl", "sp", "b">>,
     <<"1.", "sp", "Code quality issues", ":", "sp", "-", "sp", "a">>}

\* no two neighbouring lexemes run together into a longer word or number
Alnum ==
    NumLex \cup {"X", "Y", "Z", "a", "b", "c", "d", "e", "f", "prose", "abc", "null",
                 "true", "false", "inf", "out of", "Code quality issues",
                 "Good practices", "Overall quality score", "1.", "2.", "3."}

WellFormed(text) ==
    \A i \in 1..(Len(text) - 1) :
        \/ ~(text[i] \in Alnum /\ text[i + 1] \in Alnum)
        \/ (text[i] \in Enumerators /\ text[i + 1] \notin NumLex \cup Enumerators)

Texts == {text \in JSONTexts \cup SectionedTexts \cup ProseTexts : WellFormed(text)}

\* an alternative: a dictionary or an SDK object, with the text payloads
\* it exposes (each absent or present) and its str() form
Alternative(isdict, message_text, text, str) ==
    [isdict |-> isdict, message_text |-> message_text, text |-> text, str |-> str]

DictText(t) == Alternative(TRUE, <<>>, <<t>>, <<"{", "prose", "}">>)

ShapeTexts ==
    {<<"prose">>, GoodObject, <<FENCE_JSON, "nl">> \o GoodObject \o <<"nl", FENCE>>,
     <<"{", "}">>}

OtherShapes ==
    {Alternative(TRUE, <<GoodObject>>, tx, <<"{", "prose", "}">>) :
        tx \in {<<>>, <<<<"prose">>>>}}
    \cup
    {Alternative(d, <<>>, tx, st) :
        d \in BOOLEAN, tx \in {<<>>} \cup {<<t>> : t \in ShapeTexts},
        st \in {<<"{", "}">>, <<"{", "prose", "}">>, <<"prose">>}}

ErrorTexts == {<<"Connection error: ", "refused">>, <<"No alternatives returned from the model">>}

Reply(alts) == [result |-> [alternatives |-> alts]]

Replies ==
    {Reply(<<DictText(t)>>) : t \in Texts}
    \cup {Reply(<<a>> \o rest) : a \in OtherShapes,
            rest \in {r \in {<<>>, <<DictText(GoodObject)>>, <<DictText(<<"prose">>), DictText(<<>>)>>} :
                        Len(r) < MaxAlts}}
    \cup {<<>>, [result |-> <<>>], Reply(<<>>)}
    \cup {[error |-> PyStr(e)] : e \in ErrorTexts}
    \cup {[error |-> PyStr(e), result |-> [alternatives |-> <<DictText(GoodObject)>>]] :
            e \in ErrorTexts}

(***************************************************************************)
(* One call of _parse_analysis_response as a state machine.                *)
(***************************************************************************)
VARIABLES
    response,       \* the argument
    pc,             \* position in the function
    message,        \* text of the first alternative
    parsed_json,    \* None or the parsed object
    analysis,       \* the dictionary under construction
    tiers,          \* extraction tiers attempted so far, in order
    result          \* the returned dictionary, once pc = "returned"

vars == <<response, pc, message, parsed_json, analysis, tiers, result>>

\* state of the prompt builder and model client (ClientSpec)
VARIABLES
    impl,           \* which file's client runs
    credentials,    \* api_key, folder_id and model_name are all set
    diff_content,   \* the diff handed to the prompt builder
    prompt,         \* the assembled prompt
    user_text,      \* text of the user message passed to model.run
    outcome,        \* what the provider did with the request
    reply,          \* the dictionary call_yandex_cloud_api returns
    cpc             \* position in the call

cvars == <<impl, credentials, diff_content, prompt, user_text, outcome, reply, cpc>>

\* state of a run of main.py (OrchSpec)
VARIABLES
    environment,        \* what the process finds around it when it starts
    mode,               \* the input selector given on the command line
    source,             \* what the input file holds, or what the fetch gave
    pending,            \* records not yet analysed
    current,            \* the record or diff under analysis
    built_diff,         \* the diff text handed to the prompt builder
    api_reply,          \* what call_yandex_cloud_api returned
    analysis_results,   \* results collected so far
    written,            \* the list dumped to the JSON output
    prompts_built,      \* calls of _build_analysis_prompt so far
    remote_calls,       \* calls of call_yandex_cloud_api so far
    exit_status,        \* status the process ended with
    opc                 \* position in the run

ovars == <<environment, mode, source, pending, current, built_diff, api_reply, analysis_results,
           written, prompts_built, remote_calls, exit_status, opc>>

\* state of one call of generate_diff_content (DiffSpec)
VARIABLES
    generator,          \* the file whose generate_diff_content runs
    repository_files,   \* the mapping, as the list of its items in order
    file_index,         \* items the loop has gone through
    diff_parts,         \* the pieces of text collected so far
    full_diff_content,  \* the text returned
    dpc                 \* position in the call

dvars == <<generator, repository_files, file_index, diff_parts, full_diff_content, dpc>>

\* state of one call of parse_repository_file (ParseSpec)
VARIABLES
    parser,             \* the file whose parse_repository_file runs
    origin,             \* where the text of the dump comes from
    dump_text,          \* the text read from the dump file
    file_sections,      \* the sections the text was split into
    section_index,      \* sections the loop has gone through
    parsed_files,       \* the mapping built so far
    ppc                 \* position in the call

pvars == <<parser, origin, dump_text, file_sections, section_index, parsed_files, ppc>>

\* state of one analysis of a repository dump (RepoSpec)
VARIABLES
    entry,              \* the function that analyses the dump
    repo_file,          \* what the dump file holds
    repo_files,         \* the mapping parsed, as the list of its items in order
    diff_text,          \* the diff synthesized from the mapping
    model_reply,        \* what call_yandex_cloud_api returned
    model_calls,        \* calls of call_yandex_cloud_api made
    analysis_result,    \* what the entry function returned
    rpc                 \* position in the analysis

rvars == <<entry, repo_file, repo_files, diff_text, model_reply, model_calls,
           analysis_result, rpc>>

\* each specification leaves the state of the others alone
beside_vars == <<cvars, ovars, dvars, pvars, rvars>>
beside_cvars == <<vars, ovars, dvars, pvars, rvars>>
beside_ovars == <<vars, cvars, dvars, pvars, rvars>>
beside_dvars == <<vars, cvars, ovars, pvars, rvars>>
beside_pvars == <<vars, cvars, ovars, dvars, rvars>>
beside_rvars == <<vars, cvars, ovars, dvars, pvars>>

\* no dump is being analysed
RepoIdle ==
    /\ entry = "run_analysis_from_file"
    /\ repo_file = <<>>
    /\ repo_files = <<>>
    /\ diff_text = <<>>
    /\ model_reply = <<>>
    /\ model_calls = 0
    /\ analysis_result = <<>>
    /\ rpc = "idle"

\* no call of parse_repository_file is running
ParseIdle ==
    /\ parser = "main"
    /\ origin = <<>>
    /\ dump_text = <<>>
    /\ file_sections = <<>>
    /\ section_index = 0
    /\ parsed_files = <<>>
    /\ ppc = "idle"

\* no call of generate_diff_content is running
DiffIdle ==
    /\ generator = "main"
    /\ repository_files = <<>>
    /\ file_index = 0
    /\ diff_parts = <<>>
    /\ full_diff_content = <<>>
    /\ dpc = "idle"

\* no run of main.py is under way
OrchIdle ==
    /\ environment = <<>>
    /\ mode = "none"
    /\ source = <<>>
    /\ pending = <<>>
    /\ current = None
    /\ built_diff = <<>>
    /\ api_reply = <<>>
    /\ analysis_results = <<>>
    /\ written = <<>>
    /\ prompts_built = 0
    /\ remote_calls = 0
    /\ exit_status = -1
    /\ opc = "idle"

\* the client is not running
ClientIdle ==
    /\ impl = "modules"
    /\ credentials = TRUE
    /\ diff_content = <<>>
    /\ prompt = <<>>
    /\ user_text = <<>>
    /\ outcome = <<>>
    /\ reply = <<>>
    /\ cpc = "idle"

\* no call of _parse_analysis_response is running
NormalizerIdle ==
    /\ response = <<>>
    /\ pc = "idle"
    /\ message = <<>>
    /\ parsed_json = None
    /\ analysis = <<>>
    /\ tiers = <<>>
    /\ result = <<>>

NoResult == <<>>

Init ==
    /\ response \in Replies
    /\ pc = "start"
    /\ message = <<>>
    /\ parsed_json = None
    /\ analysis = NoResult
    /\ tiers = <<>>
    /\ result = NoResult
    /\ ClientIdle
    /\ OrchIdle
    /\ DiffIdle
    /\ ParseIdle
    /\ RepoIdle

\* lines 280-287
ErrorReply ==
    /\ pc = "start"
    /\ "error" \in DOMAIN response
    /\ result' = ErrorAnalysis(<<"API Error: ">> \o response.error.txt)
    /\ pc' = "returned"
    /\ UNCHANGED <<response, message, parsed_json, analysis, tiers>>
    /\ UNCHANGED beside_vars

\* lines 307-314
NoAlternatives ==
    /\ pc = "start"
    /\ "error" \notin DOMAIN response
    /\ Alternatives(response) = <<>>
    /\ result' = ErrorAnalysis(<<"API response contained no alternatives.">>)
    /\ pc' = "returned"
    /\ UNCHANGED <<response, message, parsed_json, analysis, tiers>>
    /\ UNCHANGED beside_vars

\* faulty variant: the error marker is not looked at before the alternatives
TakeMessage_ignores_error ==
    /\ pc = "start"
    /\ Alternatives(response) # <<>>
    /\ message' = AlternativeText(Alternatives(response)[1])
    /\ analysis' = NewAnalysis(message')
    /\ parsed_json' = None
    /\ pc' = "direct"
    /\ UNCHANGED <<response, tiers, result>>
    /\ UNCHANGED beside_vars

\* lines 289-306 and 316-325
TakeMessage ==
    /\ pc = "start"
    /\ "error" \notin DOMAIN response
    /\ Alternatives(response) # <<>>
    /\ message' = AlternativeText(Alternatives(response)[1])
    /\ analysis' = NewAnalysis(message')
    /\ parsed_json' = None
    /\ pc' = "direct"
    /\ UNCHANGED <<response, tiers, result>>
    /\ UNCHANGED beside_vars

\* faulty variant: the second tier runs whatever the first tier yielded
TryDirectJSON_falls_through ==
    /\ pc = "direct"
    /\ parsed_json' = DirectJSON(message)
    /\ tiers' = Append(tiers, "direct")
    /\ pc' = "embedded"
    /\ UNCHANGED <<response, message, analysis, result>>
    /\ UNCHANGED beside_vars

\* lines 326-343
TryDirectJSON ==
    /\ pc = "direct"
    /\ parsed_json' = DirectJSON(message)
    /\ tiers' = Append(tiers, "direct")
    /\ pc' = IF parsed_json' = None THEN "embedded"
             ELSE IF parsed_json'.t = "dict" THEN "fields" ELSE "regex"
    /\ UNCHANGED <<response, message, analysis, result>>
    /\ UNCHANGED beside_vars

\* lines 343-356
TryEmbeddedJSON ==
    /\ pc = "embedded"
    /\ parsed_json' = EmbeddedJSON(message)
    /\ tiers' = Append(tiers, "embedded")
    /\ pc' = IF parsed_json' # None /\ parsed_json'.t = "dict" THEN "fields" ELSE "regex"
    /\ UNCHANGED <<response, message, analysis, result>>
    /\ UNCHANGED beside_vars

\* lines 356-372 and 401
TakeJSONFields ==
    /\ pc = "fields"
    /\ ScoreOf(dict_get(parsed_json, "overall_score", None)).exc = "none"
    /\ analysis' = JSONFields(analysis, parsed_json)
    /\ result' = analysis'
    /\ pc' = "returned"
    /\ UNCHANGED <<response, message, parsed_json, tiers>>
    /\ UNCHANGED beside_vars

\* line 365: float() raises an exception that lines 366-368 do not catch
ScoreRaises ==
    /\ pc = "fields"
    /\ ScoreOf(dict_get(parsed_json, "overall_score", None)).exc # "none"
    /\ pc' = "raised"
    /\ UNCHANGED <<response, message, parsed_json, analysis, tiers, result>>
    /\ UNCHANGED beside_vars

\* lines 374-401
RegexFallback ==
    /\ pc = "regex"
    /\ tiers' = Append(tiers, "regex")
    /\ analysis' = RegexFields(analysis, message)
    /\ result' = analysis'
    /\ pc' = "returned"
    /\ UNCHANGED <<response, message, parsed_json>>
    /\ UNCHANGED beside_vars

Next ==
    \/ ErrorReply
    \/ NoAlternatives
    \/ TakeMessage
    \/ TryDirectJSON
    \/ TryEmbeddedJSON
    \/ TakeJSONFields
    \/ ScoreRaises
    \/ RegexFallback

Spec == Init /\ [][Next]_vars

(***************************************************************************)
(* Properties.                                                             *)
(***************************************************************************)
Range(seq) == {seq[i] : i \in 1..Len(seq)}

\* the call went past the error and no-alternatives exits and has returned
ReturnedFromText ==
    /\ pc = "returned"
    /\ "error" \notin DOMAIN response
    /\ Alternatives(response) # <<>>

\* C1: for a reply without an error marker and with an alternative the tiers
\* are attempted in the order direct, embedded, regex; the embedded tier is
\* attempted only when the direct tier yielded no object, the regex tier only
\* when neither JSON tier did, and the returned fields come from the first
\* tier that yielded an object.
C1_TierOrder ==
    /\ tiers \in {<<>>, <<"direct">>, <<"direct", "embedded">>,
                  <<"direct", "embedded", "regex">>}
    /\ "embedded" \in Range(tiers) => DirectJSON(message) = None
    /\ "regex" \in Range(tiers) =>
            DirectJSON(message) = None /\ EmbeddedJSON(message) = None
    /\ ReturnedFromText =>
            result = IF DirectJSON(message) # None
                     THEN JSONFields(NewAnalysis(message), DirectJSON(message))
                     ELSE IF EmbeddedJSON(message) # None
                     THEN JSONFields(NewAnalysis(message), EmbeddedJSON(message))
                     ELSE RegexFields(NewAnalysis(message), message)

\* the direct tier failed and the embedded tier yielded the object returned
C1_Witness ==
    /\ ReturnedFromText
    /\ tiers = <<"direct", "embedded">>
    /\ parsed_json # None
    /\ result.patterns # EmptyList

\* C2: a reply that carries an error gives a result that carries that error,
\* with the four lists empty and overall_score None, and no tier is attempted.
C2_ErrorShortCircuit ==
    "error" \in DOMAIN response =>
        /\ tiers = <<>>
        /\ pc \in {"start", "returned"}
        /\ pc = "returned" =>
            /\ "error" \in DOMAIN result
            /\ result.error = PyStr(<<"API Error: ">> \o response.error.txt)
            /\ \A i \in 1..4 : result[ListKeys[i]] = EmptyList
            /\ result.overall_score = None

\* an error reply that also has an alternative with parseable JSON returned
C2_Witness ==
    /\ pc = "returned"
    /\ "error" \in DOMAIN response
    /\ Alternatives(response) # <<>>
    /\ "error" \in DOMAIN result

\* the text payloads the first alternative exposes
Payloads(alt) ==
    {alt.text[i] : i \in 1..Len(alt.text)} \cup
    (IF alt.isdict THEN {alt.message_text[i] : i \in 1..Len(alt.message_text)} ELSE {})

\* C3: raw_response is the text of the first alternative exactly as received,
\* whichever tier produced the other fields.
C3_RawResponse ==
    (ReturnedFromText /\ Payloads(Alternatives(response)[1]) # {}) =>
        /\ result.raw_response.t = "str"
        /\ result.raw_response.txt \in Payloads(Alternatives(response)[1])
        /\ Cardinality(Payloads(Alternatives(response)[1])) > 1 =>
                result.raw_response.txt = Alternatives(response)[1].message_text[1]

\* a fenced, padded text was parsed by the direct tier and is kept unstripped
C3_Witness ==
    /\ ReturnedFromText
    /\ tiers = <<"direct">>
    /\ result.patterns # EmptyList
    /\ Head(message) = "nl"
    /\ FENCE \in Range(message)
    /\ result.raw_response.txt = message

\* the text is exactly the object, bare or inside a json fence
SchemaForms(body) == {body, <<FENCE_JSON, "nl">> \o body \o <<"nl", FENCE>>}

Strings(ws) == PyList([i \in 1..Len(ws) |-> PyStr(<<ws[i]>>)])

\* every schema object in every exact form, with the lists it was built from
SchemaCases ==
    UNION {{[text |-> form, params |-> p] :
                form \in SchemaForms(SchemaObject(p[1], p[2], p[3], p[4], p[5]))} :
           p \in SchemaParams}

\* C4: when the text is exactly a JSON object matching the schema, bare or
\* in a json fence, the four lists equal the JSON lists element for element
\* and in order, overall_score is the JSON number as a float and there is no
\* error.
C4_SchemaObjectVerbatim ==
    pc = "returned" =>
        \A c \in SchemaCases :
            message = c.text =>
                /\ result.quality_issues = Strings(c.params[1])
                /\ result.good_practices = Strings(c.params[2])
                /\ result.patterns = Strings(c.params[3])
                /\ result.anti_patterns = Strings(c.params[4])
                /\ result.overall_score = PyFloat(Tenths(c.params[5]))
                /\ "error" \notin DOMAIN result

\* a fenced schema object with four different lists was returned
C4_Witness ==
    /\ pc = "returned"
    /\ message = <<FENCE_JSON, "nl">>
            \o SchemaObject(<<"X", "Y">>, <<"Y", "X">>, <<"X">>, <<>>, "7.5")
            \o <<"nl", FENCE>>
    /\ result.quality_issues = Strings(<<"X", "Y">>)
    /\ result.overall_score = PyFloat(75)

\* sectioned texts with at least one item in each section and a score
\* written <number>/10
SectionedCases ==
    {p \in SectionedParams :
        p[2] >= 1 /\ p[4] >= 1 /\ p[5] \in {<<"7", "/", "10">>, <<"12", "/", "10">>}}

\* C5: for numbered prose without JSON (sections 1, 2, 3, each with at least
\* one bullet or number prefixed item line, and a <number>/10 score) the two JSON tiers
\* fail and the regex tier sets quality_issues to the items of section 1,
\* good_practices to the items of section 2 and overall_score to the number,
\* leaving patterns and anti_patterns empty.
C5_NumberedProse ==
    pc = "returned" =>
        \A p \in SectionedCases :
            message = SectionedText(p[1], p[2], p[3], p[4], p[5], p[6], p[7]) =>
                /\ tiers = <<"direct", "embedded", "regex">>
                /\ result.quality_issues = Strings(SubSeq(<<"a", "b", "c">>, 1, p[2]))
                /\ result.good_practices = Strings(SubSeq(<<"d", "e", "f">>, 1, p[4]))
                /\ result.overall_score = PyFloat(Tenths(p[5][1]))
                /\ result.patterns = EmptyList
                /\ result.anti_patterns = EmptyList

\* text without a brace and without any of the three section titles
Unstructured(text) ==
    Range(text) \cap {"{", "Code quality issues", "Good practices",
                      "Overall quality score"} = {}

\* C6: a reply with an alternative and without an error marker never gives a
\* result with an error field; text with no JSON and no numbered section
\* gives empty lists, a None score and the full text as raw_response.
C6_TextIsNeverAnError ==
    ReturnedFromText =>
        /\ "error" \notin DOMAIN result
        /\ Unstructured(message) =>
            /\ \A i \in 1..4 : result[ListKeys[i]] = EmptyList
            /\ result.overall_score = None
            /\ result.raw_response = PyStr(message)

\* plain prose went through all three tiers and came back empty, no error
C6_Witness ==
    /\ ReturnedFromText
    /\ message = <<"prose", "nl", "prose">>
    /\ tiers = <<"direct", "embedded", "regex">>
    /\ result.quality_issues = EmptyList
    /\ "error" \notin DOMAIN result

\* positions of the members of object d that are named key
MembersNamed(d, key) == {i \in 1..Len(d.items) : d.items[i].txt = <<key>>}

\* the value json.loads keeps for key: that of its last member
KeptValue(d, key) ==
    d.items[CHOOSE i \in MembersNamed(d, key) :
                \A j \in MembersNamed(d, key) : j <= i].items[1]

\* C7: after a JSON tier succeeded each of the four list fields is a list:
\* the parsed list when the key holds a list, the empty list when the key
\* is absent or holds something else.
C7_ListFieldsAreLists ==
    (pc = "returned" /\ parsed_json # None) =>
        \A i \in 1..4 :
            LET key == ListKeys[i]
            IN  /\ result[key].t = "list"
                /\ result[key] =
                     IF MembersNamed(parsed_json, key) # {}
                            /\ KeptValue(parsed_json, key).t = "list"
                     THEN KeptValue(parsed_json, key)
                     ELSE EmptyList

\* an object whose patterns member is a string and which has no
\* quality_issues member came back with both fields empty
C7_Witness ==
    /\ pc = "returned"
    /\ parsed_json # None
    /\ MembersNamed(parsed_json, "patterns") # {}
    /\ KeptValue(parsed_json, "patterns").t = "str"
    /\ MembersNamed(parsed_json, "quality_issues") = {}
    /\ result.patterns = EmptyList
    /\ result.quality_issues = EmptyList

\* a value float() turns into a float
Convertible(v) ==
    \/ v.t \in {"float", "int", "bool"} /\ v.txt # <<HUGE>>
    \/ v.t = "str" /\ Len(strip(v.txt)) = 1 /\ strip(v.txt)[1] \in NumLex

\* C8: after a JSON tier succeeded overall_score of the result is a float
\* when the object holds a convertible overall_score, and None when the key
\* is absent, null or holds a value that cannot be converted; it has no
\* other type.
C8_ScoreIsFloatOrNone ==
    (parsed_json # None /\ pc \in {"returned", "raised"}) =>
        /\ pc = "returned"
        /\ result.overall_score.t \in {"float", "NoneType"}
        /\ result.overall_score.t = "float" <=>
                /\ MembersNamed(parsed_json, "overall_score") # {}
                /\ Convertible(KeptValue(parsed_json, "overall_score"))

\* C9: overall_score of a returned result, when not None, lies in [0, 10].
C9_ScoreInRange ==
    (pc = "returned" /\ result.overall_score # None) =>
        /\ result.overall_score.t = "float"
        /\ result.overall_score.txt = <<>>
        /\ 0 <= result.overall_score.n
        /\ result.overall_score.n <= 100

\* C10: every element of the four list fields of a returned result is a
\* string.
C10_ElementsAreStrings ==
    pc = "returned" =>
        \A i \in 1..4 :
            \A j \in 1..Len(result[ListKeys[i]].items) :
                result[ListKeys[i]].items[j].t = "str"

(***************************************************************************)
(* Text with lengths.  Where the number of characters matters a text is a  *)
(* sequence of pieces; a piece stands for n characters: n copies of one    *)
(* character for a run, the first n characters of a fixed text otherwise.  *)
(***************************************************************************)
Piece(s, n) == [s |-> s, n |-> n]

\* len(text), by halves to keep the evaluation shallow on long texts
RECURSIVE len(_)
len(text) ==
    IF text = <<>> THEN 0
    ELSE IF Len(text) = 1 THEN text[1].n
    ELSE len(SubSeq(text, 1, Len(text) \div 2))
         + len(SubSeq(text, Len(text) \div 2 + 1, Len(text)))

\* text[:k]
RECURSIVE slice_to(_, _)
slice_to(text, k) ==
    IF text = <<>> \/ k <= 0 THEN <<>>
    ELSE IF Len(text) = 1
         THEN IF text[1].n <= k THEN text ELSE <<Piece(text[1].s, k)>>
    ELSE IF len(SubSeq(text, 1, Len(text) \div 2)) >= k
         THEN slice_to(SubSeq(text, 1, Len(text) \div 2), k)
    ELSE SubSeq(text, 1, Len(text) \div 2)
         \o slice_to(SubSeq(text, Len(text) \div 2 + 1, Len(text)),
                     k - len(SubSeq(text, 1, Len(text) \div 2)))

(***************************************************************************)
(* The prompt and the model client: _build_analysis_prompt and             *)
(* call_yandex_cloud_api of src/app/modules/analyzer.py ("modules") and    *)
(* the prompt of analyze_code_changes and call_yandex_cloud_api of         *)
(* src/analyzer.py ("legacy").                                             *)
(***************************************************************************)
Implementations == {"modules", "legacy"}

\* characters of the template before the interpolated diff: the rubric, the
\* few-shot example and the line "Code diff:" (3083), or the three-point
\* instruction of the legacy prompt (238)
TemplateHead(which) == IF which = "modules" THEN 3083 ELSE 238

\* the f-string: the instructions, the diff, and the line break that ends
\* the template
build_analysis_prompt(which, diff) ==
    <<Piece("instructions", TemplateHead(which))>> \o diff \o <<Piece("final newline", 1)>>

max_prompt_length == 32000

\* faulty variant: the last max_prompt_length characters are kept
truncated_keeps_tail(text) ==
    IF len(text) > max_prompt_length
    THEN <<Piece("tail of", max_prompt_length)>>
    ELSE text

\* lines 59-62: prompt[:max_prompt_length] when the prompt is longer
truncated(text) ==
    IF len(text) > max_prompt_length THEN slice_to(text, max_prompt_length) ELSE text

\* isinstance(e, cls) for the exception classes met here
IsInstance(kind, cls) ==
    \/ cls = "Exception"
    \/ kind = cls
    \/ kind = "ConnectionRefusedError" /\ cls = "ConnectionError"

\* the except clause that handles the exception, in the order of the clauses
handler(kind) ==
    IF IsInstance(kind, "ConnectionError") THEN "ConnectionError"
    ELSE IF IsInstance(kind, "TimeoutError") THEN "TimeoutError"
    ELSE IF IsInstance(kind, "Exception") THEN "Exception"
    ELSE "none"

\* the error text the except clauses return for exception kind with str(e) = msg
except_error(which, kind, msg) ==
    CASE handler(kind) = "ConnectionError" -> <<"Connection error: ">> \o msg
      [] handler(kind) = "TimeoutError" -> <<"API request timed out: ">> \o msg
      [] OTHER -> IF which = "modules" THEN <<"API request failed: ">> \o msg ELSE msg

MissingCredentialsText == <<"Missing required API credentials">>
NoAlternativesText == <<"No alternatives returned from the model">>

ErrorReplyOf(txt) == [error |-> PyStr(txt)]

\* what the provider does with the request
Faults == {"ConnectionError", "ConnectionRefusedError", "TimeoutError", "RuntimeError",
           "TypeError"}
FaultMessages ==
    {<<>>, <<"refused">>, <<"Connection error: ", "refused">>,
     <<"API request timed out: ", "refused">>, <<"API request failed: ", "refused">>,
     MissingCredentialsText}

AltPool == {DictText(<<"prose">>), DictText(GoodObject)}

RECURSIVE SeqsUpTo(_, _)
SeqsUpTo(S, n) ==
    IF n = 0 THEN {<<>>}
    ELSE LET shorter == SeqsUpTo(S, n - 1)
         IN  shorter \cup {Append(q, x) : q \in {r \in shorter : Len(r) = n - 1}, x \in S}

Completed(alts) == [kind |-> "completed", msg |-> <<>>, alts |-> alts]
Raised(kind, msg) == [kind |-> kind, msg |-> msg, alts |-> <<>>]

Outcomes ==
    {Completed(alts) : alts \in SeqsUpTo(AltPool, MaxAlts)}
    \cup {Raised(k, m) : k \in Faults, m \in FaultMessages}

\* lengths of the diff around the point where the prompt reaches the limit
DiffLengths ==
    {1, 40000} \cup
    {max_prompt_length - TemplateHead(i) - 1 + d : i \in Implementations, d \in (-1)..2}

NotSent == <<Piece("nothing sent", 0)>>
NoReply == <<>>
NoOutcome == Raised("none", <<>>)

ClientInit ==
    /\ impl \in Implementations
    /\ credentials \in BOOLEAN
    /\ diff_content \in {<<Piece("diff", n)>> : n \in DiffLengths}
    /\ prompt = <<>>
    /\ user_text = NotSent
    /\ outcome = NoOutcome
    /\ reply = NoReply
    /\ cpc = "build"
    /\ NormalizerIdle
    /\ OrchIdle
    /\ DiffIdle
    /\ ParseIdle
    /\ RepoIdle

\* modules lines 197 and 269, legacy lines 239-246
BuildPrompt ==
    /\ cpc = "build"
    /\ prompt' = build_analysis_prompt(impl, diff_content)
    /\ cpc' = "call"
    /\ UNCHANGED <<impl, credentials, diff_content, user_text, outcome, reply>>
    /\ UNCHANGED beside_cvars

\* modules lines 54-56
MissingCredentials ==
    /\ cpc = "call"
    /\ ~credentials
    /\ reply' = ErrorReplyOf(MissingCredentialsText)
    /\ cpc' = "returned"
    /\ UNCHANGED <<impl, credentials, diff_content, prompt, user_text, outcome>>
    /\ UNCHANGED beside_cvars

\* modules lines 58-73: the prompt is cut and sent; the call completes with
\* alternatives or raises
RunModel ==
    /\ cpc = "call"
    /\ credentials
    /\ user_text' = truncated(prompt)
    /\ \E o \in Outcomes : outcome' = o
    /\ cpc' = "ran"
    /\ UNCHANGED <<impl, credentials, diff_content, prompt, reply>>
    /\ UNCHANGED beside_cvars

\* modules lines 76-79
ReturnAlternatives ==
    /\ cpc = "ran"
    /\ outcome.kind = "completed"
    /\ outcome.alts # <<>>
    /\ reply' = Reply(outcome.alts)
    /\ cpc' = "returned"
    /\ UNCHANGED <<impl, credentials, diff_content, prompt, user_text, outcome>>
    /\ UNCHANGED beside_cvars

\* faulty variant: an empty list of alternatives is returned as a success
ReturnNoAlternatives_as_success ==
    /\ cpc = "ran"
    /\ outcome.kind = "completed"
    /\ outcome.alts = <<>>
    /\ reply' = Reply(outcome.alts)
    /\ cpc' = "returned"
    /\ UNCHANGED <<impl, credentials, diff_content, prompt, user_text, outcome>>
    /\ UNCHANGED beside_cvars

\* modules lines 80-82
ReturnNoAlternatives ==
    /\ cpc = "ran"
    /\ outcome.kind = "completed"
    /\ outcome.alts = <<>>
    /\ reply' = ErrorReplyOf(NoAlternativesText)
    /\ cpc' = "returned"
    /\ UNCHANGED <<impl, credentials, diff_content, prompt, user_text, outcome>>
    /\ UNCHANGED beside_cvars

\* modules lines 84-92: the first except clause that matches returns an
\* error reply; an exception no clause matches leaves the function
CatchFault ==
    /\ cpc = "ran"
    /\ outcome.kind # "completed"
    /\ IF handler(outcome.kind) = "none"
       THEN cpc' = "raised" /\ reply' = reply
       ELSE /\ reply' = ErrorReplyOf(except_error(impl, outcome.kind, outcome.msg))
            /\ cpc' = "returned"
    /\ UNCHANGED <<impl, credentials, diff_content, prompt, user_text, outcome>>
    /\ UNCHANGED beside_cvars

ClientNext ==
    \/ BuildPrompt
    \/ MissingCredentials
    \/ RunModel
    \/ ReturnAlternatives
    \/ ReturnNoAlternatives
    \/ CatchFault

ClientSpec == ClientInit /\ [][ClientNext]_cvars

(***************************************************************************)
(* Properties of the model client.                                         *)
(***************************************************************************)
\* why the call failed: one of the four causes, or "none"
Cause ==
    IF cpc \notin {"returned", "raised"} THEN "none"
    ELSE IF ~credentials THEN "credentials"
    ELSE IF outcome.kind = "completed" THEN "none"
    ELSE IF IsInstance(outcome.kind, "ConnectionError") THEN "connection"
    ELSE IF IsInstance(outcome.kind, "TimeoutError") THEN "timeout"
    ELSE "other"

\* every error text the client of file i can return for cause c
MessagesOf(i, c) ==
    CASE c = "credentials" -> {MissingCredentialsText}
      [] c = "connection" -> {except_error(i, "ConnectionError", m) : m \in FaultMessages}
      [] c = "timeout" -> {except_error(i, "TimeoutError", m) : m \in FaultMessages}
      [] c = "other" -> {except_error(i, "RuntimeError", m) : m \in FaultMessages}

Causes == {"credentials", "connection", "timeout", "other"}

\* C12: call_yandex_cloud_api never raises: with missing credentials, a
\* connection failure, a timeout or any other fault it returns an error
\* reply, and the error text of each of the four causes is a text none of
\* the other three causes can produce.
C12_ErrorRepliesTellCauses ==
    /\ cpc # "raised"
    /\ (cpc = "returned" /\ Cause \in Causes) =>
            /\ DOMAIN reply = {"error"}
            /\ \A c \in Causes \ {Cause} : reply.error.txt \notin MessagesOf(impl, c)

\* C13: when the provider returns no alternative the reply is an error reply
\* and not a success; every success reply carries the provider's
\* alternatives, at least one, in the provider's order.
C13_NoEmptySuccess ==
    cpc = "returned" =>
        /\ (credentials /\ outcome.kind = "completed" /\ outcome.alts = <<>>) =>
                DOMAIN reply = {"error"}
        /\ "result" \in DOMAIN reply =>
                /\ "error" \notin DOMAIN reply
                /\ outcome.kind = "completed"
                /\ Alternatives(reply) # <<>>
                /\ Alternatives(reply) = outcome.alts

\* the provider completed with no alternative and the call returned an error
C13_Witness ==
    /\ cpc = "returned"
    /\ outcome = Completed(<<>>)
    /\ reply = ErrorReplyOf(NoAlternativesText)

\* the pieces of text that come from the diff
RECURSIVE DiffChars(_)
DiffChars(text) ==
    IF text = <<>> THEN 0
    ELSE (IF Head(text).s = "diff" THEN Head(text).n ELSE 0) + DiffChars(Tail(text))

Sent == cpc \in {"ran", "returned"} /\ credentials /\ impl = "modules"

\* C14 as stated: the user text is at most 32,000 characters and holds the
\* whole instruction template; when the prompt is longer than that, the
\* characters left out are characters of the diff and no others.
C14_OnlyDiffRemoved ==
    Sent =>
        /\ len(user_text) <= 32000
        /\ Head(user_text) = Piece("instructions", 3083)
        /\ len(prompt) - len(user_text) = DiffChars(prompt) - DiffChars(user_text)

\* C14 amended: the user text is the first 32,000 characters of the prompt
\* (all of it when it is shorter); it holds the whole rubric and few-shot
\* example, and what is left out is the end of the diff together with the
\* one line break the template puts after the diff.
C14_DiffAndFinalNewlineRemoved ==
    Sent =>
        /\ len(user_text) <= 32000
        /\ Head(user_text) = Piece("instructions", 3083)
        /\ len(user_text) = IF len(prompt) > 32000 THEN 32000 ELSE len(prompt)
        /\ len(prompt) <= 32000 => user_text = prompt
        /\ len(prompt) > 32000 =>
                /\ len(prompt) - len(user_text)
                        = (DiffChars(prompt) - DiffChars(user_text)) + 1
                /\ user_text = <<Piece("instructions", 3083)>>
                                 \o slice_to(diff_content, 32000 - 3083)

\* a prompt one character over the limit was sent: the line break went
C14_Witness ==
    /\ Sent
    /\ len(prompt) = 32001
    /\ len(user_text) = 32000
    /\ DiffChars(user_text) = DiffChars(prompt)

(***************************************************************************)
(* analyze_pull_request and analyze_code_changes                           *)
(* (src/app/modules/analyzer.py) and the orchestration of src/main.py.     *)
(***************************************************************************)
FENCE_DIFF == "<fence>diff"     \* three backticks followed by diff

\* bool(v)
truthy(v) ==
    CASE v.t = "NoneType" -> FALSE
      [] v.t = "str" -> v.txt # <<>>
      [] v.t \in {"int", "float", "bool"} -> v.n # 0 \/ v.txt # <<>>
      [] OTHER -> v.items # <<>>

\* the text an f-string puts in for v
format(v) == IF v.t = "str" THEN v.txt ELSE IF v = None THEN <<"None">> ELSE <<"value">>

\* s.strip('\n')
RECURSIVE strip_nl(_)
strip_nl(s) ==
    IF s # <<>> /\ Head(s) = "nl" THEN strip_nl(Tail(s))
    ELSE IF s # <<>> /\ s[Len(s)] = "nl" THEN strip_nl(SubSeq(s, 1, Len(s) - 1))
    ELSE s

Key(k) == <<k>>

\* lines 252-253
filename_of(file_info) == dict_get(file_info, "filename", None)
patch_of(file_info) == dict_get(file_info, "patch", None)

\* line 259: strip is a method of str only
strip_raises(file_info) ==
    /\ file_info.t = "dict"
    /\ truthy(filename_of(file_info))
    /\ truthy(patch_of(file_info))
    /\ patch_of(file_info).t # "str"

\* faulty variant: a file without a patch gets the placeholder without headers
file_parts_bare_placeholder(file_info) ==
    IF file_info.t # "dict" THEN <<>>
    ELSE IF truthy(filename_of(file_info)) /\ truthy(patch_of(file_info))
    THEN << <<"--- a/">> \o format(filename_of(file_info)),
            <<"+++ b/">> \o format(filename_of(file_info)),
            <<FENCE_DIFF>>,
            strip_nl(patch_of(file_info).txt),
            <<FENCE, "nl">> >>
    ELSE IF truthy(filename_of(file_info))
    THEN << <<"(No patch content provided)", "nl">> >>
    ELSE <<>>

\* lines 248-265: the parts one entry of files appends to diff_parts
file_parts(file_info) ==
    IF file_info.t # "dict" THEN <<>>
    ELSE IF truthy(filename_of(file_info)) /\ truthy(patch_of(file_info))
    THEN << <<"--- a/">> \o format(filename_of(file_info)),
            <<"+++ b/">> \o format(filename_of(file_info)),
            <<FENCE_DIFF>>,
            strip_nl(patch_of(file_info).txt),
            <<FENCE, "nl">> >>
    ELSE IF truthy(filename_of(file_info))
    THEN << <<"--- a/">> \o format(filename_of(file_info)),
            <<"+++ b/">> \o format(filename_of(file_info)),
            <<"(No patch content provided)", "nl">> >>
    ELSE <<>>

RECURSIVE all_file_parts(_)
all_file_parts(files) ==
    IF files = <<>> THEN <<>>
    ELSE file_parts(Head(files)) \o all_file_parts(Tail(files))

\* lines 225-227
title_of(pr_data) == dict_get(pr_data, "title", PyStr(<<"N/A">>))
description_of(pr_data) == dict_get(pr_data, "description", PyStr(<<"No description provided.">>))
files_of(pr_data) == dict_get(pr_data, "files", EmptyList)

\* lines 242-267: the diff text of a record whose files is a non-empty list
pr_diff_content(pr_data) ==
    Join(<< <<"# Pull Request: ">> \o format(title_of(pr_data)),
            <<"nl", "## Description", "nl">> \o format(description_of(pr_data)) \o <<"nl">>,
            <<"## Changes", "nl">> >>
         \o all_file_parts(files_of(pr_data).items),
         <<"nl">>)

\* the whole of _parse_analysis_response (lines 278-401) in one step: the
\* dictionary returned, or the exception that leaves the function
parse_analysis_response(resp) ==
    IF "error" \in DOMAIN resp
    THEN Converted(ErrorAnalysis(<<"API Error: ">> \o resp.error.txt))
    ELSE IF Alternatives(resp) = <<>>
    THEN Converted(ErrorAnalysis(<<"API response contained no alternatives.">>))
    ELSE LET msg == AlternativeText(Alternatives(resp)[1])
             direct == DirectJSON(msg)
             parsed == IF direct # None THEN direct ELSE EmbeddedJSON(msg)
             score == ScoreOf(dict_get(parsed, "overall_score", None))
         IN  IF parsed # None /\ parsed.t = "dict"
             THEN IF score.exc # "none" THEN Raises(score.exc)
                  ELSE Converted(JSONFields(NewAnalysis(msg), parsed))
             ELSE Converted(RegexFields(NewAnalysis(msg), msg))

\* a dictionary with the error key alone
ErrorOnly(txt) == [error |-> PyStr(txt)]

\* main.py lines 246-250: the error dictionary with an empty raw_response
EmptyResult(txt) == [ErrorAnalysis(txt) EXCEPT !.raw_response = PyStr(<<>>)]

(***************************************************************************)
(* Inputs of a run.                                                        *)
(***************************************************************************)
MaxFiles == 2
MaxUnits == 2

FileInfo(filename, patch) ==
    PyDict(filename \o patch)

Patches ==
    {<<"@@ -1 +1 @@", "nl", "-a", "nl", "+b">>,
     <<"nl", "@@ -1 +1 @@", "nl", "+b", "nl", "nl">>}

\* entries of files: with a patch, without (key absent, null, empty text),
\* without a filename, a patch that is not text, an entry that is no dictionary
FileInfos ==
    {FileInfo(<<PyPair(Key("filename"), PyStr(<<f>>))>>, p) :
        f \in {"a.py", "b.py"},
        p \in {<<>>, <<PyPair(Key("patch"), None)>>, <<PyPair(Key("patch"), PyStr(<<>>))>>}
              \cup {<<PyPair(Key("patch"), PyStr(t))>> : t \in Patches}}
    \cup {FileInfo(<<>>, <<PyPair(Key("patch"), PyStr(<<"@@ -1 +1 @@", "nl", "+b">>))>>),
          FileInfo(<<PyPair(Key("filename"), PyStr(<<>>))>>, <<>>),
          FileInfo(<<PyPair(Key("filename"), PyStr(<<"c.py">>))>>,
                   <<PyPair(Key("patch"), PyInt("7"))>>),
          PyStr(<<"a.py">>)}

PullRequest(title, files) == PyDict(title \o files)

Titles == {<<>>, <<PyPair(Key("title"), PyStr(<<"T">>)),
                   PyPair(Key("description"), None)>>}

\* records: no dictionary, no files key, files that is no list, an empty
\* list, and every list of up to MaxFiles entries
Records ==
    {PyStr(<<"record">>), EmptyList, PullRequest(<<>>, <<>>),
     PullRequest(<<>>, <<PyPair(Key("files"), PyStr(<<"a.py">>))>>),
     PullRequest(<<>>, <<PyPair(Key("files"), EmptyList)>>)}
    \cup {PullRequest(t, <<PyPair(Key("files"), PyList(fs))>>) :
            t \in Titles, fs \in SeqsUpTo(FileInfos, MaxFiles) \ {<<>>}}

WithPatch == FileInfo(<<PyPair(Key("filename"), PyStr(<<"a.py">>))>>,
                      <<PyPair(Key("patch"), PyStr(<<"@@ -1 +1 @@", "nl", "-a", "nl", "+b">>))>>)

\* records of runs with several units
UnitPool ==
    {PyStr(<<"record">>),
     PullRequest(<<>>, <<PyPair(Key("files"), EmptyList)>>),
     PullRequest(<<>>, <<PyPair(Key("files"), PyList(<<WithPatch>>))>>),
     PullRequest(<<>>, <<PyPair(Key("files"),
            PyList(<<FileInfo(<<PyPair(Key("filename"), PyStr(<<"c.py">>))>>,
                              <<PyPair(Key("patch"), PyInt("7"))>>)>>))>>)}

RecordLists == {<<r>> : r \in Records} \cup SeqsUpTo(UnitPool, MaxUnits)

\* what the input file of a run holds, or what the fetch gave
Sources(m) ==
    CASE m = "input_json" ->
            {[kind |-> "missing"], [kind |-> "not json"], [kind |-> "not a list"]}
            \cup {[kind |-> "list", records |-> rs] : rs \in RecordLists}
      [] m = "input_diff" ->
            {[kind |-> "missing"], [kind |-> "unreadable"]}
            \cup {[kind |-> "text", text |-> t] : t \in {<<>>, <<"+x">>}}
      [] m = "input_repo" ->
            {[kind |-> "missing"], [kind |-> "unreadable"], [kind |-> "no files"],
             [kind |-> "files", text |-> <<"--- a/", "a.py", "nl", "+++ b/", "a.py", "nl",
                                          "@@ -0,0 +1,1 @@", "nl", "+x", "nl">>]}
      [] m = "github_user" ->
            {[kind |-> "bad dates"], [kind |-> "fetch failed"]}
            \cup {[kind |-> "list", records |-> rs] : rs \in SeqsUpTo(UnitPool, MaxUnits)}

Modes == {"input_json", "input_diff", "input_repo", "github_user"}

\* replies of the model client met by a run: an error reply, a schema
\* object, prose, an object whose score is beyond the float range
ClientReplies ==
    {ErrorReplyOf(<<"API request failed: ", "refused">>),
     Reply(<<DictText(GoodObject)>>),
     Reply(<<DictText(<<"prose">>)>>),
     Reply(<<DictText(<<"{">> \o JMember("overall_score", <<HUGE>>) \o <<"}">>)>>)}

\* the result of _parse_analysis_response for each reply a run can meet
normalized == {[reply |-> r, result |-> parse_analysis_response(r)] : r \in ClientReplies}

NotWritten == <<>>
NoUnit == None

\* what a run finds: the GitHub token and the three variables of the
\* completion provider set or not, the SDK client constructed or raising,
\* the output going to standard output or to a file that cannot be written
Env(github_token, yandex_vars, sdk, output) ==
    [github_token |-> github_token, yandex_vars |-> yandex_vars, sdk |-> sdk,
     output |-> output]

Environments ==
    {Env(TRUE, TRUE, "ok", o) : o \in {"stdout", "unwritable file"}}
    \cup {Env(FALSE, TRUE, "ok", "stdout"), Env(TRUE, FALSE, "ok", "stdout"),
          Env(TRUE, TRUE, "raises", "stdout")}

\* the run cannot start: src/app/modules/analyzer.py lines 26-27 raise
\* ValueError when main.py imports the module (main.py lines 12-17 catch
\* ImportError only), validate_env_vars exits (main.py lines 165-168), the
\* constructor raises and main exits (main.py lines 345 and 371-374)
SetupFails ==
    \/ ~environment.yandex_vars
    \/ mode = "github_user" /\ ~environment.github_token
    \/ environment.sdk = "raises"

OrchInit ==
    /\ environment \in Environments
    /\ mode \in Modes
    /\ source \in Sources(mode)
    /\ pending = <<>>
    /\ current = NoUnit
    /\ built_diff = <<>>
    /\ api_reply = NoReply
    /\ analysis_results = <<>>
    /\ written = NotWritten
    /\ prompts_built = 0
    /\ remote_calls = 0
    /\ exit_status = -1
    /\ opc = "launch"
    /\ NormalizerIdle
    /\ ClientIdle
    /\ DiffIdle
    /\ ParseIdle
    /\ RepoIdle

InputName == <<"input">>

\* faulty variant: the run goes on whatever the set-up found
Startup_goes_on ==
    /\ opc = "launch"
    /\ opc' = "start"
    /\ UNCHANGED <<environment, mode, source, pending, current, built_diff, api_reply,
                   analysis_results, written, prompts_built, remote_calls, exit_status>>
    /\ UNCHANGED beside_ovars

\* main.py lines 318-346: the process starts and the analyzer is set up
Startup ==
    /\ opc = "launch"
    /\ IF SetupFails
       THEN exit_status' = 1 /\ opc' = "exited"
       ELSE opc' = "start" /\ UNCHANGED exit_status
    /\ UNCHANGED <<environment, mode, source, pending, current, built_diff, api_reply,
                   analysis_results, written, prompts_built, remote_calls>>
    /\ UNCHANGED beside_ovars

\* main.py lines 196-219
ReadJSON ==
    /\ opc = "start"
    /\ mode = "input_json"
    /\ pending' = IF source.kind = "list" THEN source.records ELSE <<>>
    /\ analysis_results' =
            CASE source.kind = "missing" -> <<ErrorOnly(<<"File not found: ">> \o InputName)>>
              [] source.kind = "not json" ->
                    <<ErrorOnly(<<"Invalid JSON in file: ">> \o InputName)>>
              [] OTHER -> <<>>
    /\ opc' = "loop"
    /\ UNCHANGED <<environment, mode, source, current, built_diff, api_reply, written,
                   prompts_built, remote_calls, exit_status>>
    /\ UNCHANGED beside_ovars

\* main.py lines 222-235
ReadDiff ==
    /\ opc = "start"
    /\ mode = "input_diff"
    /\ IF source.kind = "text"
       THEN /\ current' = PyStr(source.text)
            /\ opc' = "code_changes"
            /\ UNCHANGED analysis_results
       ELSE /\ analysis_results' =
                    IF source.kind = "missing"
                    THEN <<ErrorOnly(<<"File not found: ">> \o InputName)>>
                    ELSE <<ErrorOnly(<<"Error processing diff file '">> \o InputName
                                     \o <<"': ", "UnicodeDecodeError">>)>>
            /\ opc' = "loop"
            /\ UNCHANGED current
    /\ UNCHANGED <<environment, mode, source, pending, built_diff, api_reply, written,
                   prompts_built, remote_calls, exit_status>>
    /\ UNCHANGED beside_ovars

\* main.py lines 238-272
ReadRepo ==
    /\ opc = "start"
    /\ mode = "input_repo"
    /\ IF source.kind = "files"
       THEN /\ current' = PyStr(source.text)
            /\ opc' = "code_changes"
            /\ UNCHANGED analysis_results
       ELSE /\ analysis_results' =
                    CASE source.kind = "missing" ->
                            <<ErrorOnly(<<"File not found: ">> \o InputName)>>
                      [] source.kind = "unreadable" ->
                            <<ErrorOnly(<<"Error processing repository file '">> \o InputName
                                        \o <<"': ", "UnicodeDecodeError">>)>>
                      [] OTHER ->
                            <<EmptyResult(<<"No files parsed from repository file: ">>
                                          \o InputName)>>
            /\ opc' = "loop"
            /\ UNCHANGED current
    /\ UNCHANGED <<environment, mode, source, pending, built_diff, api_reply, written,
                   prompts_built, remote_calls, exit_status>>
    /\ UNCHANGED beside_ovars

\* main.py lines 174-191 and 348-353
Fetch ==
    /\ opc = "start"
    /\ mode = "github_user"
    /\ IF source.kind = "list"
       THEN pending' = source.records /\ opc' = "loop" /\ UNCHANGED exit_status
       ELSE exit_status' = 1 /\ opc' = "exited" /\ UNCHANGED pending
    /\ UNCHANGED <<environment, mode, source, current, built_diff, api_reply,
                   analysis_results, written, prompts_built, remote_calls>>
    /\ UNCHANGED beside_ovars

\* main.py lines 206-208 and 280-283
NextRecord ==
    /\ opc = "loop"
    /\ pending # <<>>
    /\ current' = Head(pending)
    /\ pending' = Tail(pending)
    /\ opc' = "pull_request"
    /\ UNCHANGED <<environment, mode, source, built_diff, api_reply, analysis_results, written,
                   prompts_built, remote_calls, exit_status>>
    /\ UNCHANGED beside_ovars

\* lines 221-240: records that are turned down before a diff is built
Rejected(pr_data) ==
    \/ pr_data.t # "dict"
    \/ files_of(pr_data).t # "list"
    \/ ~truthy(files_of(pr_data))

RejectRecord ==
    /\ opc = "pull_request"
    /\ Rejected(current)
    /\ analysis_results' = Append(analysis_results,
            IF current.t # "dict" THEN ErrorOnly(<<"PR data must be a dictionary">>)
            ELSE IF files_of(current).t # "list" THEN ErrorOnly(<<"'files' must be a list">>)
            ELSE ErrorAnalysis(<<"No files found in PR data.">>))
    /\ opc' = "loop"
    /\ UNCHANGED <<environment, mode, source, pending, current, built_diff, api_reply, written,
                   prompts_built, remote_calls, exit_status>>
    /\ UNCHANGED beside_ovars

\* lines 242-269: the diff text and the prompt are built
BuildDiff ==
    /\ opc = "pull_request"
    /\ ~Rejected(current)
    /\ \A i \in 1..Len(files_of(current).items) : ~strip_raises(files_of(current).items[i])
    /\ built_diff' = pr_diff_content(current)
    /\ prompts_built' = prompts_built + 1
    /\ opc' = "call"
    /\ UNCHANGED <<environment, mode, source, pending, current, api_reply, analysis_results,
                   written, remote_calls, exit_status>>
    /\ UNCHANGED beside_ovars

\* faulty variant: the exception leaves analyze_pull_request and ends the
\* loop over the records
PatchRaises_aborts ==
    /\ opc = "pull_request"
    /\ ~Rejected(current)
    /\ \E i \in 1..Len(files_of(current).items) : strip_raises(files_of(current).items[i])
    /\ analysis_results' = Append(analysis_results,
            ErrorOnly(<<"Error analyzing pull request: ", "AttributeError">>))
    /\ pending' = <<>>
    /\ opc' = "loop"
    /\ UNCHANGED <<environment, mode, source, current, built_diff, api_reply, written,
                   prompts_built, remote_calls, exit_status>>
    /\ UNCHANGED beside_ovars

\* line 259 raises AttributeError, lines 274-276 return the error
PatchRaises ==
    /\ opc = "pull_request"
    /\ ~Rejected(current)
    /\ \E i \in 1..Len(files_of(current).items) : strip_raises(files_of(current).items[i])
    /\ analysis_results' = Append(analysis_results,
            ErrorOnly(<<"Error analyzing pull request: ", "AttributeError">>))
    /\ opc' = "loop"
    /\ UNCHANGED <<environment, mode, source, pending, current, built_diff, api_reply, written,
                   prompts_built, remote_calls, exit_status>>
    /\ UNCHANGED beside_ovars

\* faulty variant: an empty diff goes to the prompt and the model, as it
\* does in src/analyzer.py
EmptyDiff_asks_model ==
    /\ opc = "code_changes"
    /\ ~truthy(current)
    /\ built_diff' = current.txt
    /\ prompts_built' = prompts_built + 1
    /\ opc' = "call"
    /\ UNCHANGED <<environment, mode, source, pending, current, api_reply, analysis_results,
                   written, remote_calls, exit_status>>
    /\ UNCHANGED beside_ovars

\* lines 185-195
EmptyDiff ==
    /\ opc = "code_changes"
    /\ ~truthy(current)
    /\ analysis_results' = Append(analysis_results,
            ErrorAnalysis(<<"Input diff content was empty.">>))
    /\ opc' = "loop"
    /\ UNCHANGED <<environment, mode, source, pending, current, built_diff, api_reply, written,
                   prompts_built, remote_calls, exit_status>>
    /\ UNCHANGED beside_ovars

\* line 197
PromptFromDiff ==
    /\ opc = "code_changes"
    /\ truthy(current)
    /\ built_diff' = current.txt
    /\ prompts_built' = prompts_built + 1
    /\ opc' = "call"
    /\ UNCHANGED <<environment, mode, source, pending, current, api_reply, analysis_results,
                   written, remote_calls, exit_status>>
    /\ UNCHANGED beside_ovars

\* faulty variant: a call that gave an error reply is made again
CallModel_retries ==
    /\ opc = "call"
    /\ \E r \in ClientReplies :
        /\ api_reply' = r
        /\ opc' = IF "error" \in DOMAIN r THEN "call" ELSE "normalize"
    /\ remote_calls' = remote_calls + 1
    /\ UNCHANGED <<environment, mode, source, pending, current, built_diff,
                   analysis_results, written, prompts_built, exit_status>>
    /\ UNCHANGED beside_ovars

\* lines 199 and 270: the one call of call_yandex_cloud_api
CallModel ==
    /\ opc = "call"
    /\ \E r \in ClientReplies : api_reply' = r
    /\ remote_calls' = remote_calls + 1
    /\ opc' = "normalize"
    /\ UNCHANGED <<environment, mode, source, pending, current, built_diff,
                   analysis_results, written, prompts_built, exit_status>>
    /\ UNCHANGED beside_ovars

\* lines 201-205 and 272-276: the result of _parse_analysis_response, or the
\* error dictionary when it raised
Normalize ==
    /\ opc = "normalize"
    /\ \E p \in normalized :
        /\ p.reply = api_reply
        /\ analysis_results' = Append(analysis_results,
                IF p.result.exc = "none" THEN p.result.val
                ELSE ErrorOnly(<<IF mode \in {"input_json", "github_user"}
                                 THEN "Error analyzing pull request: "
                                 ELSE "Error during code changes analysis: ",
                                 p.result.exc>>))
    /\ opc' = "loop"
    /\ UNCHANGED <<environment, mode, source, pending, current, built_diff, api_reply, written,
                   prompts_built, remote_calls, exit_status>>
    /\ UNCHANGED beside_ovars

\* main.py lines 293-301: results that are not empty
valid_results(results) == SelectSeq(results, LAMBDA res : DOMAIN res # {})

\* main.py lines 359-369 and 293-316
WriteOutput ==
    /\ opc = "loop"
    /\ pending = <<>>
    /\ written' = IF valid_results(analysis_results) # <<>>
                  THEN valid_results(analysis_results) ELSE NotWritten
    /\ exit_status' = IF /\ valid_results(analysis_results) # <<>>
                          /\ environment.output = "unwritable file"
                       THEN 1 ELSE 0
    /\ opc' = "exited"
    /\ UNCHANGED <<environment, mode, source, pending, current, built_diff, api_reply,
                   analysis_results, prompts_built, remote_calls>>
    /\ UNCHANGED beside_ovars

OrchNext ==
    \/ Startup
    \/ ReadJSON
    \/ ReadDiff
    \/ ReadRepo
    \/ Fetch
    \/ NextRecord
    \/ RejectRecord
    \/ BuildDiff
    \/ PatchRaises
    \/ EmptyDiff
    \/ PromptFromDiff
    \/ CallModel
    \/ Normalize
    \/ WriteOutput

OrchSpec == OrchInit /\ [][OrchNext]_ovars

(***************************************************************************)
(* Properties of the orchestration.                                        *)
(***************************************************************************)
ResultKeys == {"quality_issues", "good_practices", "patterns", "anti_patterns",
               "overall_score", "raw_response"}

\* C11: every result object written to the JSON output, on success paths and
\* on every error path, has the keys quality_issues, good_practices,
\* patterns, anti_patterns, overall_score and raw_response.
C11_WrittenResultsHaveAllKeys ==
    (opc = "exited" /\ written # NotWritten) =>
        \A i \in 1..Len(written) : ResultKeys \subseteq DOMAIN written[i]

\* text.split('\n')
RECURSIVE SplitLines(_)
SplitLines(text) ==
    LET e == LineEnd(text, 1)
    IN  IF e > Len(text) THEN <<text>>
        ELSE <<SubSeq(text, 1, e - 1)>> \o SplitLines(SubSeq(text, e + 1, Len(text)))

\* positions of the lines from i on that start with the old-file header
RECURSIVE HeaderPositions(_, _)
HeaderPositions(lines, i) ==
    IF i > Len(lines) THEN <<>>
    ELSE (IF lines[i] # <<>> /\ Head(lines[i]) = "--- a/" THEN <<i>> ELSE <<>>)
         \o HeaderPositions(lines, i + 1)

\* the entries of files that have a filename
Named(files) == SelectSeq(files, LAMBDA f : f.t = "dict" /\ truthy(filename_of(f)))

HunkHeaders == {"@@ -1 +1 @@", "@@ -0,0 +1,1 @@"}

PullRequestDiffBuilt ==
    opc \in {"call", "normalize"} /\ mode \in {"input_json", "github_user"}

\* C19: in the diff text built from a record the files that have a filename
\* appear in record order, one block each; the block of a file with a patch
\* is its two headers, the opening diff fence, the lines of the patch (line
\* breaks at its ends dropped) and the closing fence; the block of a file
\* without a patch is its two headers and the placeholder line, with no hunk
\* header and no fence.
C19_PullRequestDiff ==
    PullRequestDiffBuilt =>
        LET lines == SplitLines(built_diff)
            at == HeaderPositions(lines, 1)
            files == Named(files_of(current).items)
        IN  /\ Len(at) = Len(files)
            /\ \A k \in 1..Len(files) :
                LET name == filename_of(files[k]).txt
                    patch == patch_of(files[k])
                    last == IF k < Len(at) THEN at[k + 1] - 1 ELSE Len(lines)
                    block == SubSeq(lines, at[k], last)
                    plines == SplitLines(strip_nl(patch.txt))
                IN  /\ Len(block) >= 3
                    /\ block[1] = <<"--- a/">> \o name
                    /\ block[2] = <<"+++ b/">> \o name
                    /\ IF truthy(patch)
                       THEN /\ Len(block) >= 4 + Len(plines)
                            /\ block[3] = <<FENCE_DIFF>>
                            /\ SubSeq(block, 4, 3 + Len(plines)) = plines
                            /\ block[4 + Len(plines)] = <<FENCE>>
                            /\ \A j \in (5 + Len(plines))..Len(block) : block[j] = <<>>
                       ELSE /\ block[3] = <<"(No patch content provided)">>
                            /\ \A j \in 4..Len(block) : block[j] = <<>>
                            /\ \A j \in 1..Len(block) :
                                    Range(block[j]) \cap (HunkHeaders \cup {FENCE_DIFF, FENCE}) = {}

\* a record whose first file has no patch and whose second file has one
C19_Witness ==
    /\ PullRequestDiffBuilt
    /\ Len(Named(files_of(current).items)) = 2
    /\ ~truthy(patch_of(files_of(current).items[1]))
    /\ truthy(patch_of(files_of(current).items[2]))
    /\ "(No patch content provided)" \in Range(built_diff)
    /\ FENCE_DIFF \in Range(built_diff)

(***************************************************************************)
(* The diff synthesizer: generate_diff_content of src/main.py ("main")     *)
(* and of src/analyzer.py ("analyzer").  Text is a sequence of pieces:     *)
(* Piece("x", n) is n printable characters without a line break; a line    *)
(* break, a carriage return and a NUL are pieces of one character; the     *)
(* literals of the format are pieces named by their text.                  *)
(***************************************************************************)
Generators == {"main", "analyzer"}

X(n) == Piece("x", n)
NL == Piece("nl", 1)
CR == Piece("cr", 1)
NUL == Piece("nul", 1)
PLUS == Piece("+", 1)

\* number of decimal digits of k
RECURSIVE digits(_)
digits(k) == IF k < 10 THEN 1 ELSE 1 + digits(k \div 10)

\* a number interpolated into an f-string: its digits, the number kept
Num(k) == [s |-> "int", n |-> digits(k), v |-> k]

\* positions of the line breaks of a text
breaks(text) == {i \in DOMAIN text : text[i].s = "nl"}

\* the k-th line break of a text; 0 before the first, past the end after the last
nth_break(text, k) ==
    IF k = 0 THEN 0
    ELSE IF k > Cardinality(breaks(text)) THEN Len(text) + 1
    ELSE CHOOSE i \in breaks(text) : Cardinality({j \in breaks(text) : j < i}) = k - 1

\* text.split('\n')
split_nl(text) ==
    [k \in 1..(Cardinality(breaks(text)) + 1) |->
        SubSeq(text, nth_break(text, k - 1) + 1, nth_break(text, k) - 1)]

\* line.rstrip('\r\n')
RECURSIVE rstrip_crlf(_)
rstrip_crlf(line) ==
    IF line # <<>> /\ line[Len(line)].s \in {"cr", "nl"}
    THEN rstrip_crlf(SubSeq(line, 1, Len(line) - 1))
    ELSE line

\* '\0' in content
has_nul(content) == \E i \in DOMAIN content : content[i].s = "nul"

\* content.isprintable(): no control character, so no line break either;
\* the empty text is printable
isprintable(content) == \A i \in DOMAIN content : content[i].s \notin {"nl", "cr", "nul"}

\* the text both limits of src/analyzer.py append
TRUNCATED == <<NL, Piece("[... TRUNCATED DUE TO SIZE ...]", 31)>>

max_file_chars == 10000
max_total_chars == 100000

\* faulty variant: the header counts the line breaks
hunk_header_counts_breaks(k) == <<Piece("@@ -0,0 +1,", 11), Num(k - 1), Piece(" @@", 3)>>

\* f"@@ -0,0 +1,{len(file_lines)} @@"
hunk_header(k) == <<Piece("@@ -0,0 +1,", 11), Num(k), Piece(" @@", 3)>>

\* src/analyzer.py lines 135-137: the content that is formatted
limited(content) ==
    IF len(content) > max_file_chars
    THEN slice_to(content, max_file_chars) \o TRUNCATED
    ELSE content

\* the content whose lines a generator formats
formatted(which, content) == IF which = "analyzer" THEN limited(content) ELSE content

\* src/main.py lines 134-147: the items appended to diff_parts for one file
main_file_parts(file_path, content) ==
    <<<<Piece("--- a/", 6), file_path>>,
      <<Piece("+++ b/", 6), file_path>>,
      hunk_header(Len(split_nl(content)))>>
    \o [i \in 1..Len(split_nl(content)) |-> <<PLUS>> \o rstrip_crlf(split_nl(content)[i])]
    \o <<<<>>>>

\* src/analyzer.py lines 140-148: the texts added to diff_content for one file
analyzer_file_parts(file_path, content) ==
    <<<<Piece("--- /dev/null", 13), NL, Piece("+++ b/", 6), file_path, NL>>,
      hunk_header(Len(split_nl(limited(content)))) \o <<NL>>>>
    \o [i \in 1..Len(split_nl(limited(content))) |->
            <<PLUS>> \o split_nl(limited(content))[i] \o <<NL>>]
    \o <<<<NL>>>>

\* "\n".join(parts)
RECURSIVE join_nl(_)
join_nl(parts) ==
    IF parts = <<>> THEN <<>>
    ELSE IF Len(parts) = 1 THEN parts[1]
    ELSE join_nl(SubSeq(parts, 1, Len(parts) \div 2)) \o <<NL>>
         \o join_nl(SubSeq(parts, Len(parts) \div 2 + 1, Len(parts)))

\* the texts added one after the other
RECURSIVE concat(_)
concat(parts) ==
    IF parts = <<>> THEN <<>>
    ELSE IF Len(parts) = 1 THEN parts[1]
    ELSE concat(SubSeq(parts, 1, Len(parts) \div 2))
         \o concat(SubSeq(parts, Len(parts) \div 2 + 1, Len(parts)))

\* src/analyzer.py lines 153-155
total_limited(text) ==
    IF len(text) > max_total_chars
    THEN slice_to(text, max_total_chars) \o TRUNCATED
    ELSE text

(***************************************************************************)
(* Mappings a call is given.                                               *)
(***************************************************************************)
MaxRepoFiles == 2
MaxLargeFiles == 10

Paths == {Piece("a.py", 4), Piece("b.py", 4), Piece("c.py", 4)}

\* empty, one line, two lines, a final line break, a CRLF line end, a NUL,
\* and contents at and beyond the limits
Contents ==
    {<<>>, <<X(8)>>, <<X(3), NL, X(2)>>, <<X(3), NL>>, <<X(3), CR, NL, X(2)>>,
     <<X(2), NUL, X(2)>>, <<X(10000)>>, <<X(10001)>>, <<X(6000), NL, X(6000)>>,
     <<X(100001)>>}

RepoItem(file_path, content) == [file_path |-> file_path, content |-> content]

unique_paths(items) ==
    \A i, j \in DOMAIN items : i # j => items[i].file_path # items[j].file_path

LargePaths == <<"f01.py", "f02.py", "f03.py", "f04.py", "f05.py", "f06.py", "f07.py",
                "f08.py", "f09.py", "f10.py", "f11.py", "f12.py", "f13.py", "f14.py">>

\* mappings of many files of more than 10,000 characters, whose blocks
\* together pass 100,000 characters
LargeMappings ==
    {[i \in 1..k |-> RepoItem(Piece(LargePaths[i], 6), c)] :
        k \in (MaxLargeFiles - 1)..MaxLargeFiles, c \in {<<X(10001)>>, <<X(12000)>>}}

Mappings ==
    {m \in SeqsUpTo({RepoItem(p, c) : p \in Paths, c \in Contents}, MaxRepoFiles) :
        unique_paths(m)}
    \cup LargeMappings

DiffInit ==
    /\ generator \in Generators
    /\ repository_files \in Mappings
    /\ file_index = 0
    /\ diff_parts = <<>>
    /\ full_diff_content = <<>>
    /\ dpc = "start"
    /\ NormalizerIdle
    /\ ClientIdle
    /\ OrchIdle
    /\ ParseIdle
    /\ RepoIdle

\* main.py lines 119-121, analyzer.py lines 120-122: nothing to format
NoFiles ==
    /\ dpc = "start"
    /\ repository_files = <<>>
    /\ full_diff_content' = <<>>
    /\ dpc' = "returned"
    /\ UNCHANGED <<generator, repository_files, file_index, diff_parts>>
    /\ UNCHANGED beside_dvars

\* main.py line 123, analyzer.py line 124
EnterLoop ==
    /\ dpc = "start"
    /\ repository_files # <<>>
    /\ diff_parts' = <<>>
    /\ dpc' = "loop"
    /\ UNCHANGED <<generator, repository_files, file_index, full_diff_content>>
    /\ UNCHANGED beside_dvars

\* analyzer.py lines 130-132 (the check of main.py, lines 128-131, is
\* commented out)
SkipBinary ==
    /\ dpc = "loop"
    /\ generator = "analyzer"
    /\ file_index < Len(repository_files)
    /\ \/ has_nul(repository_files[file_index + 1].content)
       \/ ~isprintable(repository_files[file_index + 1].content)
    /\ file_index' = file_index + 1
    /\ UNCHANGED <<generator, repository_files, diff_parts, full_diff_content, dpc>>
    /\ UNCHANGED beside_dvars

\* main.py lines 125-147, analyzer.py lines 126-148: one file is formatted
FormatFile ==
    /\ dpc = "loop"
    /\ file_index < Len(repository_files)
    /\ \/ generator = "main"
       \/ /\ ~has_nul(repository_files[file_index + 1].content)
          /\ isprintable(repository_files[file_index + 1].content)
    /\ diff_parts' = diff_parts \o
            IF generator = "main"
            THEN main_file_parts(repository_files[file_index + 1].file_path,
                                 repository_files[file_index + 1].content)
            ELSE analyzer_file_parts(repository_files[file_index + 1].file_path,
                                     repository_files[file_index + 1].content)
    /\ file_index' = file_index + 1
    /\ UNCHANGED <<generator, repository_files, full_diff_content, dpc>>
    /\ UNCHANGED beside_dvars

\* main.py lines 149-156, analyzer.py lines 153-157
ReturnDiff ==
    /\ dpc = "loop"
    /\ file_index = Len(repository_files)
    /\ full_diff_content' = IF generator = "main" THEN join_nl(diff_parts)
                            ELSE total_limited(concat(diff_parts))
    /\ dpc' = "returned"
    /\ UNCHANGED <<generator, repository_files, file_index, diff_parts>>
    /\ UNCHANGED beside_dvars

DiffNext ==
    \/ NoFiles
    \/ EnterLoop
    \/ SkipBinary
    \/ FormatFile
    \/ ReturnDiff

DiffSpec == DiffInit /\ [][DiffNext]_dvars

(***************************************************************************)
(* Properties of the diff synthesizer.                                     *)
(***************************************************************************)
\* the lines of the text returned
DiffLines == split_nl(full_diff_content)

OldHeader(file_path) == <<Piece("--- a/", 6), file_path>>
NewHeader(file_path) == <<Piece("+++ b/", 6), file_path>>

\* the block of one file: the two headers, the hunk header with the number
\* of lines, the lines with a plus sign before them
BlockOf(item) ==
    <<OldHeader(item.file_path), NewHeader(item.file_path),
      <<Piece("@@ -0,0 +1,", 11), Num(Len(split_nl(item.content))), Piece(" @@", 3)>>>>
    \o [i \in 1..Len(split_nl(item.content)) |->
            <<PLUS>> \o rstrip_crlf(split_nl(item.content)[i])]

RECURSIVE BlocksOf(_)
BlocksOf(items) ==
    IF items = <<>> THEN <<>>
    ELSE IF Len(items) = 1 THEN BlockOf(items[1])
    ELSE BlocksOf(SubSeq(items, 1, Len(items) \div 2))
         \o BlocksOf(SubSeq(items, Len(items) \div 2 + 1, Len(items)))

NonBlank(lines) == SelectSeq(lines, LAMBDA l : l # <<>>)

\* C15: generate_diff_content emits, for each file of the mapping and in
\* mapping order, exactly one block: the line '--- a/<path>', the line
\* '+++ b/<path>', one hunk header '@@ -0,0 +1,<lineCount> @@', then the
\* content lines each with '+' before it; the lines of the text returned,
\* blank separator lines aside, are these blocks one after the other.
C15_OneBlockPerFile ==
    dpc = "returned" => NonBlank(DiffLines) = BlocksOf(repository_files)

\* a complete hunk header line
IsHunkHeader(line) ==
    /\ Len(line) = 3
    /\ line[1] = Piece("@@ -0,0 +1,", 11)
    /\ line[2].s = "int" /\ "v" \in DOMAIN line[2]
    /\ line[3] = Piece(" @@", 3)

\* the lines of a text that are hunk headers
HunkLines(lines) == {i \in DOMAIN lines : IsHunkHeader(lines[i])}

\* the number N the hunk header on line i announces
Announced(lines, i) == lines[i][2].v

IsPlusLine(line) == line # <<>> /\ line[1] = PLUS

\* how many lines with a plus sign follow line i without a gap
PlusLinesAfter(lines, i) ==
    LET others == {j \in (i + 1)..Len(lines) : ~IsPlusLine(lines[j])}
    IN  IF others = {} THEN Len(lines) - i
        ELSE (CHOOSE j \in others : \A k \in others : j <= k) - 1 - i

\* the file a hunk header belongs to: the one named on the line before it
FileOfHunk(lines, i) ==
    CHOOSE k \in DOMAIN repository_files :
        lines[i - 1] = NewHeader(repository_files[k].file_path)

\* lines of the content that is formatted for the file of hunk header i
FormattedLines(lines, i) ==
    Len(split_nl(formatted(generator, repository_files[FileOfHunk(lines, i)].content)))

\* the text was cut at the limit on the whole text: it ends with the marker
\* on a line of its own
BlobCut(lines) ==
    lines[Len(lines)] = <<Piece("[... TRUNCATED DUE TO SIZE ...]", 31)>>

\* characters of the text up to the end of line i, its line break included
EndOffset(lines, i) == len(concat(SubSeq(lines, 1, i))) + i

\* the block of hunk header i was emitted whole: the text was not cut, or
\* the announced lines end within the characters kept
Whole(lines, i) ==
    \/ ~BlobCut(lines)
    \/ /\ i + Announced(lines, i) <= Len(lines)
       /\ EndOffset(lines, i + Announced(lines, i)) <= max_total_chars

PlusLines(lines, i) == SubSeq(lines, i + 1, i + PlusLinesAfter(lines, i))

\* the lines of a content, each with a plus sign before it
Prefixed(content) ==
    [k \in 1..Len(split_nl(content)) |-> <<PLUS>> \o split_nl(content)[k]]

\* C17: the output of the diff synthesis is bounded: a file content longer
\* than 10,000 characters is formatted as its first 10,000 characters
\* followed by the marker, and a text longer than 100,000 characters is
\* returned as its first 100,000 characters followed by the marker, so the
\* text returned is never longer than 100,000 characters plus the marker.
C17_OutputBounded ==
    dpc = "returned" =>
        LET lines == DiffLines
        IN  /\ \/ len(full_diff_content) <= max_total_chars
               \/ full_diff_content
                    = slice_to(full_diff_content, max_total_chars) \o TRUNCATED
            /\ \A i \in HunkLines(lines) :
                 LET content == repository_files[FileOfHunk(lines, i)].content
                 IN  (len(content) > max_file_chars /\ Whole(lines, i)) =>
                        PlusLines(lines, i)
                            = Prefixed(slice_to(content, max_file_chars) \o TRUNCATED)

\* the content counts as binary: a NUL in it, or not printable text
BinaryLooking(content) == has_nul(content) \/ ~isprintable(content)

\* some line of the text names the path in a file header
HasHeaderOf(lines, file_path) ==
    \E i \in DOMAIN lines : lines[i] \in {OldHeader(file_path), NewHeader(file_path)}

\* C18: the diff synthesis skips every file whose content holds a NUL or
\* fails the printable-text check: no header of such a file is in the text
\* returned, and the other files of the mapping are still emitted (in a text
\* that the limit on the whole text did not cut).
C18_BinarySkipped ==
    dpc = "returned" =>
        LET lines == DiffLines
        IN  \A k \in DOMAIN repository_files :
                IF BinaryLooking(repository_files[k].content)
                THEN ~HasHeaderOf(lines, repository_files[k].file_path)
                ELSE BlobCut(lines) \/ HasHeaderOf(lines, repository_files[k].file_path)

(***************************************************************************)
(* The dump parser: parse_repository_file of src/main.py ("main"), of      *)
(* src/analyzer.py ("analyzer") and of src/repository_parser.py            *)
(* ("repository_parser").  The text of a dump is a sequence of lexemes:    *)
(* "FILE:", "sp" (one space), "nl" (one line break), the delimiter of 48   *)
(* equals signs, and words that hold none of these.                        *)
(***************************************************************************)
Parsers == {"main", "analyzer", "repository_parser"}

DELIMITER == "================================================"
PREAMBLE == "Directory structure:"

\* text.find(sep, i): first position at or after i where sep starts, 0 if none
RECURSIVE find(_, _, _)
find(s, sep, i) ==
    IF i + Len(sep) - 1 > Len(s) THEN 0
    ELSE IF SubSeq(s, i, i + Len(sep) - 1) = sep THEN i
    ELSE find(s, sep, i + 1)

\* text.split(sep)
RECURSIVE split(_, _)
split(s, sep) ==
    IF find(s, sep, 1) = 0 THEN <<s>>
    ELSE <<SubSeq(s, 1, find(s, sep, 1) - 1)>>
         \o split(SubSeq(s, find(s, sep, 1) + Len(sep), Len(s)), sep)

\* "FILE: " in section
has_marker(section) == find(section, <<"FILE:", "sp">>, 1) # 0

\* src/main.py line 77: section.strip().split('\n', 1)
first_line(section) ==
    IF find(strip(section), <<"nl">>, 1) = 0 THEN strip(section)
    ELSE SubSeq(strip(section), 1, find(strip(section), <<"nl">>, 1) - 1)

has_rest(section) == find(strip(section), <<"nl">>, 1) # 0

rest_lines(section) ==
    SubSeq(strip(section), find(strip(section), <<"nl">>, 1) + 1, Len(strip(section)))

\* re.search(r"FILE: (.+?)\n", section): where the leftmost match at or
\* after i starts, 0 if there is none; the group holds at least one
\* character and no line break
RECURSIVE file_match(_, _)
file_match(section, i) ==
    IF i + 3 > Len(section) THEN 0
    ELSE IF /\ section[i] = "FILE:" /\ section[i + 1] = "sp"
            /\ section[i + 2] # "nl"
            /\ find(section, <<"nl">>, i + 3) # 0
         THEN i
    ELSE file_match(section, i + 1)

\* file_match.end(): the position after the line break that ends the match
match_end(section) == find(section, <<"nl">>, file_match(section, 1) + 3) + 1

\* file_match.group(1)
group1(section) == SubSeq(section, file_match(section, 1) + 2, match_end(section) - 2)

\* the filename a parser takes from a section
filename_in(which, section) ==
    IF which = "main" THEN strip(Tail(first_line(section)))
    ELSE strip(group1(section))

\* the content a parser takes from a section
file_content_in(which, section) ==
    IF which = "main"
    THEN IF has_rest(section) THEN strip(rest_lines(section)) ELSE <<>>
    ELSE strip(SubSeq(section, match_end(section), Len(section)))

\* the section gives an entry of the mapping
gives_entry(which, section) ==
    IF which = "main"
    THEN /\ strip(section) # <<>>
         /\ startswith(first_line(section), "FILE:")
         /\ filename_in(which, section) # <<>>
    ELSE /\ file_match(section, 1) # 0
         /\ which = "analyzer" => filename_in(which, section) # <<>>

\* src/analyzer.py lines 53-61: the text after the directory structure
after_preamble(content) ==
    IF startswith(content, PREAMBLE) /\ find(content, <<"nl", "nl">>, 1) # 0
    THEN SubSeq(content, find(content, <<"nl", "nl">>, 1) + 2, Len(content))
    ELSE content

\* src/analyzer.py lines 67-69: file_sections[i + 1] is read for every
\* section with the marker, the last one included
pairing_raises(sections) == has_marker(sections[Len(sections)])

RECURSIVE paired(_, _)
paired(sections, i) ==
    IF i >= Len(sections) THEN <<>>
    ELSE (IF has_marker(sections[i]) THEN <<sections[i] \o sections[i + 1]>> ELSE <<>>)
         \o paired(sections, i + 1)

\* the sections a parser goes through
sections_of(which, content) ==
    CASE which = "main" -> split(content, <<"nl", DELIMITER, "nl">>)
      [] which = "analyzer" -> paired(split(after_preamble(content), <<DELIMITER>>), 1)
      [] which = "repository_parser" ->
            SelectSeq(split(content, <<DELIMITER>>), has_marker)

\* repository_files[filename] = file_content
store(mapping, filename, file_content) ==
    [f \in DOMAIN mapping \cup {filename} |->
        IF f = filename THEN file_content ELSE mapping[f]]

EmptyMapping == <<>>

(***************************************************************************)
(* Dump texts a call is given.                                             *)
(***************************************************************************)
MaxDumpFiles == 2

DumpPaths == {<<"a.py">>, <<"b.py">>, <<"c.py">>}

\* empty, one line, two lines, blanks at the two ends
DumpContents == {<<>>, <<"x">>, <<"x", "nl", "y">>, <<"sp", "x", "nl">>}

\* valid dumps: mappings from distinct paths, none empty, to contents
Dumps ==
    UNION {[P -> DumpContents] :
            P \in {paths \in SUBSET DumpPaths : Cardinality(paths) <= MaxDumpFiles}}

\* the orders the sections of a dump can be written in
Orders(D) ==
    {o \in SeqsUpTo(DOMAIN D, Cardinality(DOMAIN D)) :
        Len(o) = Cardinality(DOMAIN D) /\ Range(o) = DOMAIN D}

\* the canonical text of a dump: per file a FILE: line and the content, a
\* delimiter line between one file and the next
serialize(D, order) ==
    Join([i \in 1..Len(order) |-> <<"FILE:", "sp">> \o order[i] \o <<"nl">> \o D[order[i]]],
         <<"nl", DELIMITER, "nl">>)

Serialized(D, order) == [kind |-> "serialized", dump |-> D, order |-> order]
OtherText(t) == [kind |-> "text", text |-> t]

\* texts that are no canonical dump: the layout with the FILE: line between
\* two delimiter lines, with and without a directory structure before it, a
\* text without a marker, a section with an empty filename
GitingestText == <<DELIMITER, "nl", "FILE:", "sp", "a.py", "nl", DELIMITER, "nl", "x", "nl">>

OtherTexts ==
    {GitingestText,
     <<PREAMBLE, "nl", "tree", "nl", "nl",
       DELIMITER, "nl", "FILE:", "sp", "a.py", "nl", DELIMITER, "nl", "x", "nl">>,
     <<"x", "nl", "y">>,
     <<"FILE:", "sp", "sp", "nl", "x", "nl", DELIMITER, "nl", "FILE:", "sp", "a.py", "nl", "x">>,
     <<"FILE:", "sp", "nl", "x", "nl", DELIMITER, "nl">>}

Origins == UNION {{Serialized(D, o) : o \in Orders(D)} : D \in Dumps}

\* a directory structure, ended by a blank line
DirectoryStructure == <<PREAMBLE, "nl", "tree", "nl", "nl">>

\* a dump with the directory structure put before its text
Prefaced(src) == [kind |-> "prefaced", plain |-> src]

RECURSIVE text_of(_)
text_of(src) ==
    CASE src.kind = "serialized" -> serialize(src.dump, src.order)
      [] src.kind = "prefaced" -> DirectoryStructure \o text_of(src.plain)
      [] OTHER -> src.text

\* the texts a call is given
DumpOrigins ==
    Origins \cup {OtherText(t) : t \in OtherTexts}
    \cup {Prefaced(o) : o \in Origins}
    \cup {Prefaced(OtherText(GitingestText))}

ParseInit ==
    /\ parser \in Parsers
    /\ origin \in DumpOrigins
    /\ dump_text = text_of(origin)
    /\ file_sections = <<>>
    /\ section_index = 0
    /\ parsed_files = EmptyMapping
    /\ ppc = "start"
    /\ NormalizerIdle
    /\ ClientIdle
    /\ OrchIdle
    /\ DiffIdle
    /\ RepoIdle

\* main.py lines 62-64, analyzer.py lines 49-51: an empty file
EmptyFile ==
    /\ ppc = "start"
    /\ parser \in {"main", "analyzer"}
    /\ dump_text = <<>>
    /\ ppc' = "returned"
    /\ UNCHANGED <<parser, origin, dump_text, file_sections, section_index, parsed_files>>
    /\ UNCHANGED beside_pvars

\* main.py lines 68-71, analyzer.py lines 53-69, repository_parser.py
\* lines 26-30
SplitSections ==
    /\ ppc = "start"
    /\ parser = "repository_parser" \/ dump_text # <<>>
    /\ parser = "analyzer" =>
            ~pairing_raises(split(after_preamble(dump_text), <<DELIMITER>>))
    /\ file_sections' = sections_of(parser, dump_text)
    /\ ppc' = "sections"
    /\ UNCHANGED <<parser, origin, dump_text, section_index, parsed_files>>
    /\ UNCHANGED beside_pvars

\* analyzer.py line 69 raises IndexError, lines 104-106 raise it again
PairingRaises ==
    /\ ppc = "start"
    /\ parser = "analyzer"
    /\ dump_text # <<>>
    /\ pairing_raises(split(after_preamble(dump_text), <<DELIMITER>>))
    /\ ppc' = "raised"
    /\ UNCHANGED <<parser, origin, dump_text, file_sections, section_index, parsed_files>>
    /\ UNCHANGED beside_pvars

\* a section that gives no entry is passed over
SkipSection ==
    /\ ppc = "sections"
    /\ section_index < Len(file_sections)
    /\ ~gives_entry(parser, file_sections[section_index + 1])
    /\ section_index' = section_index + 1
    /\ UNCHANGED <<parser, origin, dump_text, file_sections, parsed_files, ppc>>
    /\ UNCHANGED beside_pvars

\* main.py lines 77-86, analyzer.py lines 83-98, repository_parser.py
\* lines 36-45
StoreSection ==
    /\ ppc = "sections"
    /\ section_index < Len(file_sections)
    /\ gives_entry(parser, file_sections[section_index + 1])
    /\ parsed_files' = store(parsed_files,
                             filename_in(parser, file_sections[section_index + 1]),
                             file_content_in(parser, file_sections[section_index + 1]))
    /\ section_index' = section_index + 1
    /\ UNCHANGED <<parser, origin, dump_text, file_sections, ppc>>
    /\ UNCHANGED beside_pvars

\* main.py line 98, analyzer.py lines 75-77 and 103, repository_parser.py
\* line 47
ReturnFiles ==
    /\ ppc = "sections"
    /\ section_index = Len(file_sections)
    /\ ppc' = "returned"
    /\ UNCHANGED <<parser, origin, dump_text, file_sections, section_index, parsed_files>>
    /\ UNCHANGED beside_pvars

ParseNext ==
    \/ EmptyFile
    \/ SplitSections
    \/ PairingRaises
    \/ SkipSection
    \/ StoreSection
    \/ ReturnFiles

ParseSpec == ParseInit /\ [][ParseNext]_pvars

(***************************************************************************)
(* Properties of the dump parser.                                          *)
(***************************************************************************)
\* C20: for every valid dump D (distinct paths, none empty, contents that
\* may be empty), parsing the canonical text of D, its sections in any
\* order, returns a mapping equal to D.
C20_RoundTrip ==
    (origin.kind = "serialized" /\ ppc \in {"returned", "raised"}) =>
        /\ ppc = "returned"
        /\ parsed_files = origin.dump

\* C21: parse_repository_file (src/main.py and src/analyzer.py) never fails
\* because of the shape of the text: every call returns, raising nothing,
\* wherever a "FILE: " marker or a delimiter stands, the last section
\* included; no entry has an empty filename and every section that gives an
\* entry has its filename in the mapping returned.
C21_NeverFailsOnShape ==
    (parser \in {"main", "analyzer"} /\ ppc \in {"returned", "raised"}) =>
        /\ ppc = "returned"
        /\ <<>> \notin DOMAIN parsed_files
        /\ \A i \in 1..Len(file_sections) :
                gives_entry(parser, file_sections[i]) =>
                    filename_in(parser, file_sections[i]) \in DOMAIN parsed_files

(***************************************************************************)
(* parse_repository_file and generate_diff_content as single calls.        *)
(***************************************************************************)
\* repository_files[filename] = file_content, the items kept in the order
\* in which their keys were first stored
store_item(items, filename, file_content) ==
    IF \E i \in DOMAIN items : items[i].file_path = filename
    THEN [i \in DOMAIN items |->
            IF items[i].file_path = filename THEN RepoItem(filename, file_content)
            ELSE items[i]]
    ELSE Append(items, RepoItem(filename, file_content))

\* the items a parser has after the sections from i on
RECURSIVE stored(_, _, _, _)
stored(which, sections, i, items) ==
    IF i > Len(sections) THEN items
    ELSE stored(which, sections, i + 1,
                IF gives_entry(which, sections[i])
                THEN store_item(items, filename_in(which, sections[i]),
                                file_content_in(which, sections[i]))
                ELSE items)

Gave(items) == [exc |-> "none", items |-> items]
Fails(exc) == [exc |-> exc, items |-> <<>>]

\* what parse_repository_file of a file returns or raises on a text
parse_repository_file(which, content) ==
    IF which # "repository_parser" /\ content = <<>> THEN Gave(<<>>)
    ELSE IF /\ which = "analyzer"
            /\ pairing_raises(split(after_preamble(content), <<DELIMITER>>))
         THEN Fails("IndexError")
    ELSE Gave(stored(which, sections_of(which, content), 1, <<>>))

\* the items as a mapping
mapping_of(items) ==
    [f \in {items[i].file_path : i \in DOMAIN items} |->
        items[CHOOSE i \in DOMAIN items : items[i].file_path = f].content]

\* what generate_diff_content of a file returns for a mapping
generate_diff_content(which, files) ==
    IF files = <<>> THEN <<>>
    ELSE IF which = "main"
    THEN join_nl(concat([i \in DOMAIN files |->
                            main_file_parts(files[i].file_path, files[i].content)]))
    ELSE total_limited(concat(concat([i \in DOMAIN files |->
            IF has_nul(files[i].content) \/ ~isprintable(files[i].content) THEN <<>>
            ELSE analyzer_file_parts(files[i].file_path, files[i].content)])))

\* the two ways of running agree: a call of ParseSpec ends as the single
\* call does
ParseAgrees ==
    ppc \in {"returned", "raised"} =>
        /\ (ppc = "raised") = (parse_repository_file(parser, dump_text).exc # "none")
        /\ ppc = "returned" =>
                parsed_files = mapping_of(parse_repository_file(parser, dump_text).items)

\* a call of DiffSpec ends as the single call does
DiffAgrees ==
    dpc = "returned" =>
        full_diff_content = generate_diff_content(generator, repository_files)

(***************************************************************************)
(* Analysis of a repository dump: the --input_repo branch of               *)
(* run_analysis_from_file (src/main.py) and analyze_repository_file        *)
(* (src/analyzer.py).                                                      *)
(***************************************************************************)
Entries == {"run_analysis_from_file", "analyze_repository_file"}

\* the file whose parser, synthesizer and client an entry function uses
module_of(fn) == IF fn = "run_analysis_from_file" THEN "main" ELSE "analyzer"

\* the characters of a text of lexemes, as pieces
pieces(lexemes) ==
    [i \in DOMAIN lexemes |->
        IF lexemes[i] = "nl" THEN NL
        ELSE IF lexemes[i] = "sp" THEN Piece(" ", 1)
        ELSE Piece(lexemes[i], Len(lexemes[i]))]

\* a filename as one piece of a header line
name_piece(filename) == [s |-> filename, n |-> len(pieces(filename))]

as_pieces(items) ==
    [i \in DOMAIN items |->
        RepoItem(name_piece(items[i].file_path), pieces(items[i].content))]

\* what the dump file holds: nothing at the path, or a text
NoDumpFile == [kind |-> "missing"]
DumpFile(t) == [kind |-> "text", text |-> t]

DumpFiles ==
    {NoDumpFile}
    \cup {DumpFile(text_of(o)) : o \in Origins}
    \cup {DumpFile(t) : t \in OtherTexts}

\* replies of the client of src/analyzer.py: missing credentials, a failed
\* request, an alternative of the SDK whose text has none of the numbered
\* headings
LegacyReplies ==
    {ErrorReplyOf(MissingCredentialsText),
     ErrorReplyOf(<<"refused">>),
     Reply(<<Alternative(FALSE, <<>>, <<<<"prose">>>>, <<"Alternative(", "prose", ")">>)>>)}

\* src/analyzer.py lines 285-346, for the replies above
legacy_parse_analysis_response(resp) ==
    IF "error" \in DOMAIN resp THEN [error |-> resp.error]
    ELSE IF Alternatives(resp) = <<>>
    THEN [error |-> PyStr(<<"Unexpected API response format">>),
          raw_response |-> PyStr(<<"{'result': {'alternatives': []}}">>)]
    ELSE [quality_issues |-> EmptyList, good_practices |-> EmptyList,
          overall_score |-> None,
          raw_response |-> PyStr(AlternativeText(Alternatives(resp)[1]))]

RepoInit ==
    /\ entry \in Entries
    /\ repo_file \in DumpFiles
    /\ repo_files = <<>>
    /\ diff_text = <<>>
    /\ model_reply = NoReply
    /\ model_calls = 0
    /\ analysis_result = <<>>
    /\ rpc = "start"
    /\ NormalizerIdle
    /\ ClientIdle
    /\ OrchIdle
    /\ DiffIdle
    /\ ParseIdle

\* main.py lines 266-268: the file is not there; analyzer.py lines 281-283
\* raise FileNotFoundError again
DumpMissing ==
    /\ rpc = "start"
    /\ repo_file.kind = "missing"
    /\ IF entry = "run_analysis_from_file"
       THEN /\ analysis_result' = ErrorOnly(<<"File not found: ">> \o InputName)
            /\ rpc' = "returned"
       ELSE /\ rpc' = "raised"
            /\ UNCHANGED analysis_result
    /\ UNCHANGED <<entry, repo_file, repo_files, diff_text, model_reply, model_calls>>
    /\ UNCHANGED beside_rvars

\* analyzer.py line 268 raises what the parser raised, lines 281-283 raise
\* it again (main.py lines 269-272 would return an error dictionary)
ParseFails ==
    /\ rpc = "start"
    /\ repo_file.kind = "text"
    /\ parse_repository_file(module_of(entry), repo_file.text).exc # "none"
    /\ IF entry = "run_analysis_from_file"
       THEN /\ analysis_result' =
                    ErrorOnly(<<"Error processing repository file '">> \o InputName
                              \o <<"': ", parse_repository_file(module_of(entry),
                                                                repo_file.text).exc>>)
            /\ rpc' = "returned"
       ELSE /\ rpc' = "raised"
            /\ UNCHANGED analysis_result
    /\ UNCHANGED <<entry, repo_file, repo_files, diff_text, model_reply, model_calls>>
    /\ UNCHANGED beside_rvars

\* main.py lines 242-250, analyzer.py lines 268-272: no file was parsed
NoFilesParsed ==
    /\ rpc = "start"
    /\ repo_file.kind = "text"
    /\ parse_repository_file(module_of(entry), repo_file.text) = Gave(<<>>)
    /\ analysis_result' =
            IF entry = "run_analysis_from_file"
            THEN EmptyResult(<<"No files parsed from repository file: ">> \o InputName)
            ELSE ErrorOnly(<<"No files found in the repository file">>)
    /\ rpc' = "returned"
    /\ UNCHANGED <<entry, repo_file, repo_files, diff_text, model_reply, model_calls>>
    /\ UNCHANGED beside_rvars

\* main.py lines 242 and 253, analyzer.py lines 268 and 275: the mapping is
\* parsed and the diff synthesized; main.py lines 255-260 return the error
\* dictionary for an empty diff
SynthesizeDiff ==
    /\ rpc = "start"
    /\ repo_file.kind = "text"
    /\ parse_repository_file(module_of(entry), repo_file.text).exc = "none"
    /\ parse_repository_file(module_of(entry), repo_file.text).items # <<>>
    /\ repo_files' = parse_repository_file(module_of(entry), repo_file.text).items
    /\ diff_text' = generate_diff_content(module_of(entry), as_pieces(repo_files'))
    /\ IF entry = "run_analysis_from_file" /\ diff_text' = <<>>
       THEN /\ analysis_result' =
                    EmptyResult(<<"Generated empty diff from repository file: ">>
                                \o InputName)
            /\ rpc' = "returned"
       ELSE /\ rpc' = "analyze"
            /\ UNCHANGED analysis_result
    /\ UNCHANGED <<entry, repo_file, model_reply, model_calls>>
    /\ UNCHANGED beside_rvars

\* src/app/modules/analyzer.py lines 197-199, src/analyzer.py lines 239-248:
\* the prompt is built and call_yandex_cloud_api called once
AskModel ==
    /\ rpc = "analyze"
    /\ entry = "run_analysis_from_file" => diff_text # <<>>
    /\ model_reply' \in IF entry = "run_analysis_from_file" THEN ClientReplies
                        ELSE LegacyReplies
    /\ model_calls' = model_calls + 1
    /\ rpc' = "normalize"
    /\ UNCHANGED <<entry, repo_file, repo_files, diff_text, analysis_result>>
    /\ UNCHANGED beside_rvars

\* src/app/modules/analyzer.py lines 201-205, src/analyzer.py line 249
ReturnAnalysis ==
    /\ rpc = "normalize"
    /\ IF entry = "run_analysis_from_file"
       THEN \E p \in normalized :
                /\ p.reply = model_reply
                /\ analysis_result' =
                        IF p.result.exc = "none" THEN p.result.val
                        ELSE ErrorOnly(<<"Error during code changes analysis: ",
                                         p.result.exc>>)
       ELSE analysis_result' = legacy_parse_analysis_response(model_reply)
    /\ rpc' = "returned"
    /\ UNCHANGED <<entry, repo_file, repo_files, diff_text, model_reply, model_calls>>
    /\ UNCHANGED beside_rvars

RepoNext ==
    \/ DumpMissing
    \/ ParseFails
    \/ NoFilesParsed
    \/ SynthesizeDiff
    \/ AskModel
    \/ ReturnAnalysis

RepoSpec == RepoInit /\ [][RepoNext]_rvars

(***************************************************************************)
(* Properties of the analysis of a repository dump.                        *)
(***************************************************************************)
AnalysisEnded == rpc \in {"returned", "raised"}

\* the text has no "FILE:" anywhere
NoFileSection(content) == \A i \in DOMAIN content : content[i] # "FILE:"

ParsesToNothing ==
    /\ repo_file.kind = "text"
    /\ parse_repository_file(module_of(entry), repo_file.text) = Gave(<<>>)

\* C22: a dump with no "FILE:" section, the empty dump included, parses to
\* the empty mapping and raises nothing; the analysis of a dump that parses
\* to the empty mapping returns a result that has error set and the four
\* lists present and empty, and no call of the model was made.
C22_EmptyDumpGivesErrorResult ==
    /\ (AnalysisEnded /\ repo_file.kind = "text" /\ NoFileSection(repo_file.text)) =>
            ParsesToNothing
    /\ (AnalysisEnded /\ ParsesToNothing) =>
            /\ rpc = "returned"
            /\ "error" \in DOMAIN analysis_result
            /\ \A i \in DOMAIN ListKeys :
                    /\ ListKeys[i] \in DOMAIN analysis_result
                    /\ analysis_result[ListKeys[i]] = EmptyList
            /\ model_calls = 0

\* C23: a directory structure ended by a blank line, put before the text
\* of a dump, does not change what parse_repository_file gives: with it
\* the call ends as the call on the text alone does, with the same mapping.
C23_PreambleIgnored ==
    (origin.kind = "prefaced" /\ ppc \in {"returned", "raised"}) =>
        LET plain == parse_repository_file(parser, text_of(origin.plain))
        IN  /\ (ppc = "raised") = (plain.exc # "none")
            /\ ppc = "returned" => parsed_files = mapping_of(plain.items)

(***************************************************************************)
(* Properties of a run over several records.                               *)
(***************************************************************************)
RunOverRecords ==
    /\ opc = "exited"
    /\ ~SetupFails
    /\ mode \in {"input_json", "github_user"}
    /\ source.kind = "list"

\* the record is turned down or fails before the model is asked
FailsLocally(pr_data) ==
    \/ Rejected(pr_data)
    \/ \E i \in 1..Len(files_of(pr_data).items) : strip_raises(files_of(pr_data).items[i])

\* the results analyze_pull_request can return for a record
ResultsFor(pr_data) ==
    IF pr_data.t # "dict" THEN {ErrorOnly(<<"PR data must be a dictionary">>)}
    ELSE IF files_of(pr_data).t # "list" THEN {ErrorOnly(<<"'files' must be a list">>)}
    ELSE IF ~truthy(files_of(pr_data)) THEN {ErrorAnalysis(<<"No files found in PR data.">>)}
    ELSE IF FailsLocally(pr_data)
    THEN {ErrorOnly(<<"Error analyzing pull request: ", "AttributeError">>)}
    ELSE {IF p.result.exc = "none" THEN p.result.val
          ELSE ErrorOnly(<<"Error analyzing pull request: ", p.result.exc>>) :
            p \in normalized}

\* C24: a run over a list of n pull-request records, read from the JSON
\* file or fetched, writes exactly n results, the i-th one a result of the
\* i-th record; a record whose analysis fails has an error result at its
\* place and the records after it are analysed and written all the same.
C24_OneResultPerRecord ==
    RunOverRecords =>
        /\ Len(written) = Len(source.records)
        /\ \A i \in 1..Len(written) :
                /\ written[i] \in ResultsFor(source.records[i])
                /\ FailsLocally(source.records[i]) => "error" \in DOMAIN written[i]

\* two records, the first fails on its patch, the second is analysed by the
\* model and its result has no error
C24_Witness ==
    /\ RunOverRecords
    /\ Len(source.records) = 2
    /\ ~Rejected(source.records[1]) /\ FailsLocally(source.records[1])
    /\ ~FailsLocally(source.records[2])
    /\ Len(written) = 2
    /\ "error" \in DOMAIN written[1]
    /\ "error" \notin DOMAIN written[2]
    /\ remote_calls = 1

\* units whose result has been produced never number less than the calls
\* made, but for the unit whose call has just returned; while a record is
\* under analysis the results of all records before it are there
OneUnitAtATime ==
    /\ remote_calls <= Len(analysis_results) + (IF opc = "normalize" THEN 1 ELSE 0)
    /\ (opc \in {"pull_request", "call", "normalize"} /\ source.kind = "list") =>
            Len(analysis_results) = Len(source.records) - Len(pending) - 1

\* a step that calls the model makes one call and goes on to the result;
\* the step after a call produces the result of the unit without a second
\* call, an error result when the call failed; the run ends only when no
\* record is left
NoRetryStep ==
    /\ remote_calls' # remote_calls =>
            /\ remote_calls' = remote_calls + 1
            /\ opc = "call" /\ opc' = "normalize"
    /\ opc = "normalize" =>
            /\ remote_calls' = remote_calls
            /\ analysis_results' # analysis_results
            /\ SubSeq(analysis_results', 1, Len(analysis_results)) = analysis_results
            /\ Len(analysis_results') = Len(analysis_results) + 1
            /\ "error" \in DOMAIN api_reply =>
                    "error" \in DOMAIN analysis_results'[Len(analysis_results')]
            /\ opc' = "loop"
    /\ (opc = "loop" /\ opc' = "exited") => pending = <<>>

\* C25: units are processed one after the other and no call is repeated:
\* the model is called for a unit only when the results of all units
\* before it are there, at most once per unit, and a failed call is followed
\* by one error result for its unit and then by the next unit.
C25_SequentialNoRetry == []OneUnitAtATime /\ [][NoRetryStep]_ovars

\* two units were analysed: the call of the first failed and gave an error
\* result, the call of the second was made after it
C25_Witness ==
    /\ opc = "normalize"
    /\ source.kind = "list"
    /\ Len(source.records) = 2
    /\ remote_calls = 2
    /\ Len(analysis_results) = 1
    /\ analysis_results[1] \in
            {p.result.val : p \in {q \in normalized : "error" \in DOMAIN q.reply}}

(***************************************************************************)
(* Properties of the way a run ends.                                       *)
(***************************************************************************)
FetchFails == mode = "github_user" /\ source.kind \in {"bad dates", "fetch failed"}

\* C26: a run ends with a status other than 0 when configuration of the
\* environment it needs is missing, when the set-up of the analyzer fails
\* or when the fetch from GitHub fails; a run in which nothing but the
\* analysis of units failed ends with status 0 and its JSON output holds
\* every result, the error results included.
C26_ExitStatus ==
    opc = "exited" =>
        /\ (SetupFails \/ FetchFails) => exit_status # 0 /\ written = NotWritten
        /\ (~SetupFails /\ ~FetchFails /\ environment.output = "stdout") =>
                /\ exit_status = 0
                /\ written = analysis_results

\* a run over two records ended with status 0 and wrote an error result
\* and a result without error
C26_Witness ==
    /\ opc = "exited"
    /\ exit_status = 0
    /\ Len(written) = 2
    /\ "error" \in DOMAIN written[1]
    /\ "error" \notin DOMAIN written[2]

\* runs that end with status 1 before any unit is analysed
SetupFailureSeen == opc = "exited" /\ SetupFails /\ exit_status = 1
FetchFailureSeen == opc = "exited" /\ ~SetupFails /\ FetchFails /\ exit_status = 1

\* the input file is there and what it holds is not what the mode expects
Malformed ==
    \/ mode = "input_json" /\ source.kind \in {"not json", "not a list"}
    \/ mode = "input_repo" /\ source.kind \in {"unreadable", "no files"}

\* C27: a run whose --input_json file holds text that is no JSON or JSON
\* that is no list, or whose --input_repo file holds a dump that cannot be
\* parsed, does not crash and its output holds an error result for the unit.
C27_MalformedInputGivesErrorResult ==
    (opc = "exited" /\ ~SetupFails /\ Malformed) =>
        /\ environment.output = "stdout" => exit_status = 0
        /\ written # NotWritten
        /\ \E i \in 1..Len(written) : "error" \in DOMAIN written[i]

(***************************************************************************)
(* Properties of the calls made for a unit.                                *)
(***************************************************************************)
\* the units of a run: the records of the list, or the one diff
UnitsOf(src) ==
    CASE src.kind = "list" -> src.records
      [] src.kind \in {"text", "files"} -> <<PyStr(src.text)>>
      [] OTHER -> <<>>

\* the units whose result is there, between two units and at the end
Done ==
    IF UnitsOf(source) = <<>> THEN <<>>
    ELSE SubSeq(UnitsOf(source), 1, Len(analysis_results))

BetweenUnits == opc \in {"loop", "exited"} /\ ~SetupFails /\ ~FetchFails

\* an empty diff, a record that is no dictionary, whose files is no list or
\* is empty
TurnedDown(unit) ==
    IF mode \in {"input_json", "github_user"} THEN Rejected(unit) ELSE ~truthy(unit)

\* turned down, or a record whose diff cannot be built
EndsBeforePrompt(unit) ==
    IF mode \in {"input_json", "github_user"} THEN FailsLocally(unit) ELSE ~truthy(unit)

\* C28: an empty diff and a record that is no dictionary, whose files is no
\* list or whose files is empty get an error result, no prompt is built and
\* the model is not called for them; for every other unit the model is
\* called exactly once.
C28_OneCallUnlessTurnedDown ==
    BetweenUnits =>
        /\ \A i \in DOMAIN Done : TurnedDown(Done[i]) => "error" \in DOMAIN analysis_results[i]
        /\ remote_calls = Cardinality({i \in DOMAIN Done : ~TurnedDown(Done[i])})
        /\ prompts_built = remote_calls

\* C28 as the code has it: units that are turned down, and records whose
\* diff cannot be built because a patch is no text, get an error result
\* with no prompt and no call; for every other unit the model is called
\* exactly once.
C28_OneCallUnlessEndedBeforePrompt ==
    BetweenUnits =>
        /\ \A i \in DOMAIN Done :
                EndsBeforePrompt(Done[i]) => "error" \in DOMAIN analysis_results[i]
        /\ remote_calls = Cardinality({i \in DOMAIN Done : ~EndsBeforePrompt(Done[i])})
        /\ prompts_built = remote_calls

\* a record with an empty list of files got its error result without a
\* call and the record after it was sent to the model once
C28_Witness ==
    /\ BetweenUnits
    /\ mode = "input_json"
    /\ Len(Done) = 2
    /\ Done[1].t = "dict" /\ Rejected(Done[1])
    /\ ~FailsLocally(Done[2])
    /\ "error" \in DOMAIN analysis_results[1]
    /\ prompts_built = 1
    /\ remote_calls = 1

(***************************************************************************)
(* The functions of src/main.py against those of src/analyzer.py.          *)
(***************************************************************************)
\* run_analysis_from_file has parsed the dump
ParsedByMain ==
    /\ entry = "run_analysis_from_file"
    /\ repo_file.kind = "text"
    /\ rpc # "start"

\* on the text of the dump parse_repository_file of src/analyzer.py gives
\* the mapping src/main.py gave (src/main.py raises on no text)
SameMapping ==
    /\ parse_repository_file("analyzer", repo_file.text).exc = "none"
    /\ mapping_of(parse_repository_file("analyzer", repo_file.text).items)
            = mapping_of(repo_files)

\* on the mapping src/main.py parsed generate_diff_content of
\* src/analyzer.py gives the text src/main.py gave
SameBlob == diff_text = generate_diff_content("analyzer", as_pieces(repo_files))

\* C29: parse_repository_file and generate_diff_content of src/main.py
\* behave as those of src/analyzer.py: on the same text the two parsers
\* give the same mapping or both fail, on the same mapping the two
\* synthesizers give the same text.
C29_CopiesBehaveAlike == ParsedByMain => SameMapping /\ SameBlob

(***************************************************************************)
(* generate_diff_content of src/analyzer.py on ordinary text.              *)
(***************************************************************************)
\* text without a NUL and without a control character but the line feed
OrdinaryText(content) == \A i \in DOMAIN content : content[i].s \notin {"nul", "cr"}

\* C30: generate_diff_content of src/analyzer.py emits the block of every
\* file whose content is ordinary text, contents of several lines
\* included: no such file is skipped as binary (its header is in the text
\* returned, unless the limit on the whole text cut the text).
C30_OrdinaryTextEmitted ==
    (generator = "analyzer" /\ dpc = "returned") =>
        LET lines == DiffLines
        IN  \A k \in DOMAIN repository_files :
                OrdinaryText(repository_files[k].content) =>
                    BlobCut(lines) \/ HasHeaderOf(lines, repository_files[k].file_path)

====
